---- MODULE Spec2Model ----
(***************************************************************************)
(* A model of the query-intent cache-and-dispatch core of the crypto       *)
(* intelligence agent: the TTL caches, the rate/retry wrappers, the data   *)
(* fetchers, the intent classifier, the entity extractor, the price        *)
(* response synthesizer and the optional enhancers.                        *)
(*                                                                         *)
(* Each component has a specification of its own (SpecCache, SpecRate,     *)
(* ...), given at the end of the module.  They share the wall clock `now`. *)
(* A specification leaves the variables of the other components at their   *)
(* initial value.                                                          *)
(***************************************************************************)
EXTENDS Integers, Sequences, FiniteSets, TLC

VARIABLES
    now,             \* the wall clock: time.time() / datetime.now(), in seconds
    ticks,           \* how many times the clock was advanced (bounds the model)
    impl,            \* which of the near-duplicate implementations is running
    \* the caches
    memory_caches,   \* CacheManager._memory_caches: ttl -> TTLCache (key -> entry)
    cache,           \* agent_DEPLOYED.cache: key -> (data, timestamp)
    max_size,        \* CacheManager.max_size: the maxsize of each TTLCache
    lastSet,         \* per store and key, the most recent set: value, ttl, time,
                     \* and whether it overwrote an earlier set of the key
    lastOp,          \* the cache operation that just completed and its result
    sets,            \* how many cache stores were made (bounds the model)
    \* the rate limiter
    call_counts,     \* RateLimiter.call_counts: endpoint -> calls in the window
    last_reset,      \* RateLimiter.last_reset: endpoint -> start of the window
    limits,          \* the ratelimit decorator of each function: num_calls, last_reset
    rcall,           \* the call on the rate-limit path (or the last one)
    rpc,             \* where that call is
    rsleep,          \* the seconds the pending time.sleep was asked for
    admitted,        \* the calls admitted so far: endpoint, time, window
    \* the retry wrapper and the fetchers
    func,            \* the function under the wrappers
    max_retries,     \* the argument of its retry_with_backoff decorator
    max_delay,       \* the max_delay argument of that decorator
    farg,            \* the argument of the call in progress: valid or invalid
    attempt,         \* retry_with_backoff: the loop variable
    last_exception,  \* retry_with_backoff: the exception of the last failed attempt
    fpc,             \* where the call is: idle, try, sleep, returned, raised
    delays,          \* the backoff sleeps of this call, in order
    func_calls,      \* how each call of `func` ended in this call: return / raise
    requests,        \* the outcomes of the upstream requests of this call
    result,          \* what the caller got: the value returned or the exception
    fetch_cache,     \* the cache entries of the function's results, by argument
    fcalls,          \* how many calls were made (bounds the model)
    \* the cached decorator
    kcache,          \* the entries of the memory cache, by generated key
    heap,            \* the objects the fetchers returned; a reference is an index
    klast,           \* the last call of a cached function and what it returned
    kcalls,          \* how many calls were made (bounds the model)
    \* the news fetchers
    news_feeds,      \* the entries each RSS feed holds, as links
    news_cache,      \* the cache entries of the news fetcher, by key
    ncall,           \* the last call of the news fetcher and what it returned
    ncalls,          \* how many calls were made (bounds the model)
    \* the market movers
    mcache,          \* the cache entries of get_top_gainers / get_top_losers, by key
    mcall,           \* the last call of one of the two and what it returned
    mcalls,          \* how many calls were made (bounds the model)
    \* the event loop
    tasks,           \* the calls of the decorated fetcher: where each one is
    running,         \* the task that has the loop's thread (NoThread: the loop itself)
    loop_cache,      \* the entries of the memory cache the tasks share, by key
    \* the agent
    state,           \* CryptoIntelligenceAgent.state: the query counters of AgentState
    chats,           \* the chat requests: where the handler of each one is
    \* the conversation contexts
    max_messages,    \* ContextManager.max_messages
    contexts,        \* ContextManager.contexts: user -> the messages of the context
    saved_contexts,  \* the contexts saved in the manager's cache, by user
    arrived,         \* per user, the messages added since the context was cleared
    cleared,         \* per user, whether the context was cleared and not used since
    lookup,          \* the last get_context(user, create_if_missing=False)
    \* the message parsers
    vocab,           \* the kind of words the message is made of
    text,            \* the message, a tuple of characters
    typed,           \* how many words were typed (bounds the model)
    called,          \* the parsers that were called on the message
    intent,          \* what extract_intent returned
    found_tokens,    \* what extract_crypto_tokens returned
    parsed_symbol,   \* what parse_token_symbol returned
    parsed_tokens,   \* what parse_multiple_tokens returned
    \* the turn
    ENABLE_METTA_KNOWLEDGE,   \* configuration: the knowledge lookup is on
    ENABLE_ASI1_ENHANCEMENT,  \* configuration: the LLM enhancement is on
    ASI1_API_KEY,    \* configuration: the key of the ASI1 API, or ""
    entry_point,     \* the function the caller called
    message,         \* process_query's message
    tpc,             \* where the call is
    tokens,          \* the tokens recognized / given to generate_price_response
    sections,        \* generate_price_response: the sections written so far
    fetched,         \* generate_price_response: what each fetch returned
    knowledge_context, \* process_query: the result of the knowledge lookup
    response,        \* the response text
    given,           \* the text given to enhance_with_asi1
    llm,             \* what the ASI1 API did with the enhancer's request
    network,         \* the network calls attempted in this turn, in order
    outcome          \* how the call ended: return or raise

cacheVars == <<memory_caches, cache, max_size, lastSet, lastOp, sets>>
rateVars == <<call_counts, last_reset, limits, rcall, rpc, rsleep, admitted>>
fetchVars == <<func, max_retries, max_delay, farg, attempt, last_exception, fpc, delays,
               func_calls, requests, result, fetch_cache, fcalls>>
keyVars == <<kcache, heap, klast, kcalls>>
newsVars == <<news_feeds, news_cache, ncall, ncalls>>
moversVars == <<mcache, mcall, mcalls>>
loopVars == <<tasks, running, loop_cache>>
agentVars == <<state, chats>>
contextVars == <<max_messages, contexts, saved_contexts, arrived, cleared, lookup>>
parseVars == <<vocab, text, typed, called, intent, found_tokens, parsed_symbol,
               parsed_tokens>>
turnVars == <<ENABLE_METTA_KNOWLEDGE, ENABLE_ASI1_ENHANCEMENT, ASI1_API_KEY, entry_point,
              message, tpc, tokens, sections, fetched, knowledge_context, response,
              given, llm, network, outcome>>

vars == <<now, ticks, impl, cacheVars, rateVars, fetchVars, keyVars, newsVars, moversVars, loopVars, agentVars, contextVars, parseVars,
          turnVars>>

\* What the actions of one component leave alone: the other components.
CacheFrame == UNCHANGED <<rateVars, fetchVars, keyVars, newsVars, moversVars, loopVars, agentVars, contextVars, parseVars, turnVars>>
RateFrame == UNCHANGED <<impl, cacheVars, fetchVars, keyVars, newsVars, moversVars, loopVars, agentVars, contextVars, parseVars, turnVars>>
FetchFrame == UNCHANGED <<impl, cacheVars, rateVars, keyVars, newsVars, moversVars, loopVars, agentVars, contextVars, parseVars, turnVars>>
KeyFrame == UNCHANGED <<impl, cacheVars, rateVars, fetchVars, newsVars, moversVars, loopVars, agentVars, contextVars, parseVars, turnVars>>
NewsFrame == UNCHANGED <<cacheVars, rateVars, fetchVars, keyVars, moversVars, loopVars, agentVars, contextVars, parseVars, turnVars>>
MoversFrame == UNCHANGED <<cacheVars, rateVars, fetchVars, keyVars, newsVars, loopVars, agentVars, contextVars, parseVars, turnVars>>
LoopFrame == UNCHANGED <<impl, cacheVars, rcall, rpc, rsleep, admitted, fetchVars, keyVars, newsVars,
                         moversVars, agentVars, contextVars, parseVars, turnVars>>
AgentFrame == UNCHANGED <<now, ticks, impl, cacheVars, rateVars, fetchVars, keyVars, newsVars,
                          moversVars, loopVars, contextVars, parseVars, turnVars>>
ContextFrame == UNCHANGED <<now, ticks, impl, cacheVars, rateVars, fetchVars, keyVars, newsVars,
                            moversVars, loopVars, agentVars, parseVars, turnVars>>
ParseFrame == UNCHANGED <<now, ticks, impl, cacheVars, rateVars, fetchVars, keyVars, newsVars, moversVars, loopVars, agentVars, contextVars,
                          turnVars>>
TurnFrame == UNCHANGED <<now, ticks, cacheVars, rateVars, fetchVars, keyVars, newsVars, moversVars, loopVars, agentVars, contextVars,
                         vocab, text, typed, called, found_tokens, parsed_symbol,
                         parsed_tokens>>


----------------------------------------------------------------------------
(* Shared values *)

\* Python's None: what a cache read returns for "absent" and what a fetcher
\* returns for "not found" / "unavailable".
None == "None"

\* The slice ts[:n].
Take(ts, n) == SubSeq(ts, 1, IF Len(ts) < n THEN Len(ts) ELSE n)

\* Bounds of the model.
MaxTicks == 2
MaxSets == 2

\* Advancing the clock.  Time may advance by any amount; the model advances it
\* to the instants that matter: one second later, and just before / exactly at
\* each deadline in `deadlines`.
Instants(deadlines) ==
    {now + 1} \cup {d \in deadlines \cup {e - 1 : e \in deadlines} : d > now}

----------------------------------------------------------------------------
(* utils/cache.py: CacheManager with cache_type = "memory".                *)
(* One cachetools.TTLCache per ttl value; an item of a TTLCache is         *)
(* readable while timer() < expires, expires = time of the store + ttl.    *)

Keys == {"k1", "k2"}
Values == {"v1", "v2"}

\* The default of the `ttl` parameter of CacheManager.get and .set.
DefaultTTL == 300
\* The ttl of the usage example at the end of cache.py.
ExampleTTL == 10
\* The ttl arguments the model passes.
TTLs == {ExampleTTL, DefaultTTL}

NoEntry == [value |-> None, expires |-> 0]

\* TTLCache(maxsize, ttl): a new, empty cache.
EmptyTTLCache == [k \in Keys |-> NoEntry]

\* The default of the `max_size` parameter of CacheManager, and the smallest
\* size a caller can ask for.
DefaultMaxSize == 1000
SmallestMaxSize == 1
MaxSizes == {SmallestMaxSize, DefaultMaxSize}

\* TTLCache.__contains__ / __getitem__: the link exists and has not expired.
Readable(entry, time) == entry # NoEntry /\ time < entry.expires

\* TTLCache.expire(time): every mutation first drops the expired links.
Expire(c, time) == [k \in Keys |-> IF Readable(c[k], time) THEN c[k] ELSE NoEntry]

\* The keys a TTLCache holds.
Held(c) == {k \in Keys : c[k] # NoEntry}

\* TTLCache.popitem(): drop the item that was set the longest ago.
PopItem(c) ==
    LET oldest == CHOOSE k \in Held(c) : \A j \in Held(c) : c[k].expires <= c[j].expires
    IN  [c EXCEPT ![oldest] = NoEntry]

RECURSIVE MakeRoom(_, _, _)
\* Cache.__setitem__: `if key not in self.__data: while self.__currsize +
\* size > maxsize: self.popitem()`, every item being of size 1.
MakeRoom(c, key, maxsize) ==
    IF c[key] # NoEntry \/ Held(c) = {} \/ Cardinality(Held(c)) + 1 <= maxsize THEN c
    ELSE MakeRoom(PopItem(c), key, maxsize)

\* CacheManager._get_memory_cache(ttl): get or create the cache of this ttl.
GetMemoryCache(caches, ttl) ==
    IF ttl \in DOMAIN caches THEN caches
    ELSE [t \in DOMAIN caches \cup {ttl} |->
            IF t = ttl THEN EmptyTTLCache ELSE caches[t]]

\* The cache a get looks into.  CacheManager.get(key, ttl=300) reads the
\* TTLCache of ITS ttl argument, whatever ttl the value was stored with.
GetLookup(caches, key, ttl, time) ==
    LET c == GetMemoryCache(caches, ttl)[ttl]
    IN  IF Readable(c[key], time) THEN c[key].value ELSE None

\* CacheManager.get(key, ttl): `ttl` is DefaultTTL when the caller gives none,
\* so get(key) is get(key, DefaultTTL).
CacheManagerGet(key, ttl) ==
    /\ memory_caches' = GetMemoryCache(memory_caches, ttl)
    /\ lastOp' = [store |-> "manager", op |-> "get", key |-> key, ttl |-> ttl,
                  result |-> GetLookup(memory_caches, key, ttl, now)]
    /\ impl = "manager"
    /\ UNCHANGED <<cache, max_size, lastSet, sets, now, ticks, impl>>
    /\ CacheFrame

\* The record kept of a key that was never set.
NoSet == [value |-> None, ttl |-> 0, at |-> 0, overwrote |-> FALSE]

\* CacheManager.set(key, value, ttl): cache[key] = value in the cache of ttl.
CacheManagerSet(key, value, ttl) ==
    /\ memory_caches' =
          LET cs == GetMemoryCache(memory_caches, ttl)
          IN  [cs EXCEPT ![ttl] =
                 [MakeRoom(Expire(cs[ttl], now), key, max_size) EXCEPT ![key] =
                    [value |-> value, expires |-> now + ttl]]]
    /\ lastSet' = [lastSet EXCEPT !["manager"][key] =
                     [value |-> value, ttl |-> ttl, at |-> now,
                      overwrote |-> lastSet["manager"][key] # NoSet]]
    /\ lastOp' = [store |-> "manager", op |-> "set", key |-> key, ttl |-> ttl,
                  result |-> None]
    /\ impl = "manager"
    /\ sets < MaxSets
    /\ sets' = sets + 1
    /\ UNCHANGED <<cache, max_size, now, ticks, impl>>
    /\ CacheFrame

----------------------------------------------------------------------------
(* agent_DEPLOYED.py: the module-level dict `cache` with get_cache and     *)
(* set_cache; every entry lives CACHE_DURATION seconds.                    *)

CACHE_DURATION == 180

NoData == [data |-> None, timestamp |-> 0]

\* get_cache(key): the data while now - timestamp < CACHE_DURATION; an
\* expired entry is deleted by the read.
get_cache_result(c, key, time) ==
    IF c[key] # NoData /\ time - c[key].timestamp < CACHE_DURATION
    THEN c[key].data ELSE None

\* A read that leaves the expired entry where it is.
get_cache_store_kept(c, key, time) == c

get_cache_store(c, key, time) ==
    IF c[key] # NoData /\ ~(time - c[key].timestamp < CACHE_DURATION)
    THEN [c EXCEPT ![key] = NoData] ELSE c

get_cache(key) ==
    /\ cache' = get_cache_store(cache, key, now)
    /\ lastOp' = [store |-> "deployed", op |-> "get", key |-> key,
                  ttl |-> CACHE_DURATION,
                  result |-> get_cache_result(cache, key, now)]
    /\ impl = "deployed"
    /\ UNCHANGED <<memory_caches, max_size, lastSet, sets, now, ticks, impl>>
    /\ CacheFrame

\* set_cache(key, data): cache[key] = (data, datetime.now()).
set_cache_store(c, key, data, time) ==
    [c EXCEPT ![key] = [data |-> data, timestamp |-> time]]

set_cache(key, data) ==
    /\ cache' = set_cache_store(cache, key, data, now)
    /\ lastSet' = [lastSet EXCEPT !["deployed"][key] =
                     [value |-> data, ttl |-> CACHE_DURATION, at |-> now,
                      overwrote |-> lastSet["deployed"][key] # NoSet]]
    /\ lastOp' = [store |-> "deployed", op |-> "set", key |-> key,
                  ttl |-> CACHE_DURATION, result |-> None]
    /\ impl = "deployed"
    /\ sets < MaxSets
    /\ sets' = sets + 1
    /\ UNCHANGED <<memory_caches, max_size, now, ticks, impl>>
    /\ CacheFrame

----------------------------------------------------------------------------
(* The cache specification *)

NoOp == [store |-> "none", op |-> "none", key |-> "none", ttl |-> 0,
         result |-> None]

CacheInit ==
    /\ memory_caches = << >>
    /\ cache = [k \in Keys |-> NoData]
    /\ max_size = DefaultMaxSize
    /\ lastSet = [s \in {"manager", "deployed"} |-> [k \in Keys |-> NoSet]]
    /\ lastOp = NoOp
    /\ sets = 0

\* The deadlines of the entries and of the most recent sets.
CacheDeadlines ==
    {lastSet[p[1]][p[2]].at + lastSet[p[1]][p[2]].ttl :
        p \in {q \in {"manager", "deployed"} \X Keys : lastSet[q[1]][q[2]] # NoSet}}

CacheTick ==
    /\ ticks < MaxTicks
    /\ \E t \in Instants(CacheDeadlines) : now' = t
    /\ ticks' = ticks + 1
    /\ lastOp' = NoOp
    /\ UNCHANGED <<memory_caches, cache, max_size, lastSet, sets, impl>>
    /\ CacheFrame

CacheNext ==
    \/ \E k \in Keys, v \in Values, t \in TTLs : CacheManagerSet(k, v, t)
    \/ \E k \in Keys, t \in TTLs : CacheManagerGet(k, t)
    \/ \E k \in Keys, v \in Values : set_cache(k, v)
    \/ \E k \in Keys : get_cache(k)
    \/ CacheTick

\* The most recent set of the key the last operation was about.
LastSetOfOp == lastSet[lastOp.store][lastOp.key]

\* The last operation was get(k), called as the contract of the TTL cache
\* gives it: with the key alone (for CacheManager, ttl left at its default).
IsPlainGet ==
    /\ lastOp.op = "get"
    /\ lastOp.store = "manager" => lastOp.ttl = DefaultTTL

\* C1: after set(k,v,t), a get(k) returns v while less than t seconds have
\* passed since that set and Absent once t seconds have passed; this holds
\* again for every later set(k,v',t') with its own value and ttl.
C1_SetThenGetUntilExpiry ==
    (IsPlainGet /\ LastSetOfOp # NoSet) =>
        lastOp.result = IF now - LastSetOfOp.at < LastSetOfOp.ttl
                        THEN LastSetOfOp.value ELSE None

\* C14: set overwrites unconditionally: after set(k,v1,t1) and then
\* set(k,v2,t2), whatever t1 and t2 are, a get(k) returns v2 while less
\* than t2 seconds have passed since the second set and Absent afterwards;
\* it never returns v1.
C14_SetOverwrites ==
    (IsPlainGet /\ LastSetOfOp.overwrote) =>
        lastOp.result = IF now - LastSetOfOp.at < LastSetOfOp.ttl
                        THEN LastSetOfOp.value ELSE None

\* C16: get_cache(k) returns Absent for a key that was never stored and for
\* a key whose entry has expired; the expired entry is removed by that get,
\* the store is left unchanged for a key that is not in it, and the
\* entries of the other keys are never touched.
C16_GetRemovesOnlyTheExpiredEntry ==
    [][ (lastOp'.op = "get" /\ lastOp'.store = "deployed") =>
          LET k == lastOp'.key
              expired == cache[k] # NoData /\ now - cache[k].timestamp >= CACHE_DURATION
          IN  /\ cache[k] = NoData => lastOp'.result = None /\ cache' = cache
              /\ expired => lastOp'.result = None /\ cache'[k] = NoData
              /\ (cache[k] # NoData /\ ~expired) =>
                    lastOp'.result = cache[k].data /\ cache' = cache
              /\ \A j \in Keys \ {k} : cache'[j] = cache[j] ]_vars

\* An expired key was read and is gone, while the entry of the other key,
\* stored later, is still there.
C16_Witness ==
    /\ lastOp.op = "get"
    /\ lastOp.store = "deployed"
    /\ lastOp.result = None
    /\ LastSetOfOp # NoSet
    /\ now - LastSetOfOp.at >= CACHE_DURATION
    /\ cache[lastOp.key] = NoData
    /\ \E j \in Keys \ {lastOp.key} : cache[j] # NoData

\* C17: the cache never evicts by size or recency: the entry of the most
\* recent set of a key stays in the cache of its ttl, readable, until it
\* expires, however many other keys are stored in the meantime.
C17_NoEviction ==
    \A k \in Keys :
        LET s == lastSet["manager"][k]
        IN  (s # NoSet /\ now - s.at < s.ttl) =>
                /\ s.ttl \in DOMAIN memory_caches
                /\ Readable(memory_caches[s.ttl][k], now)
                /\ memory_caches[s.ttl][k].value = s.value

----------------------------------------------------------------------------
(* utils/rate_limiter.py: RateLimiter and the rate_limit decorator.        *)
(*                                                                         *)
(* rate_limit(calls, period) stacks two limiters in front of the function: *)
(* the ratelimit library's @sleep_and_retry @limits(calls, period), with   *)
(* a window per decorated function that starts when the function is        *)
(* decorated, and RateLimiter.check_limit / wait_if_needed, with a window  *)
(* per endpoint (the function's name) that starts at its first call.       *)
(* Nothing on this path awaits, and the waits are time.sleep: one call is  *)
(* on the path at a time.                                                  *)

\* The decorated functions; the endpoint of a function is its __name__.
Endpoints == {"get_token_price", "get_trending_tokens"}

\* The decorator's arguments (50 calls per 60 s in the services, 5 per 10 s
\* in the module's example): parameters of the model.
Calls == 2
Period == 3
\* How many calls the model issues, and how often the clock ticks between calls.
MaxIssued == 4
MaxRateTicks == 5

\* RateLimiter.check_limit(endpoint, max_calls, period), lines 50-57: the
\* window after the initialisation and the reset.
CheckLimitWindow(counts, resets, e, period, time) ==
    IF e \notin DOMAIN counts THEN [count |-> 0, reset |-> time]
    ELSE IF time - resets[e] >= period THEN [count |-> 0, reset |-> time]
    ELSE [count |-> counts[e], reset |-> resets[e]]

\* A check_limit whose test is `>` instead of `>=`.
CheckLimitAdmitsOffByOne(counts, resets, e, max_calls, period, time) ==
    ~(CheckLimitWindow(counts, resets, e, period, time).count > max_calls)

\* check_limit's return value, lines 60-66.
CheckLimitAdmits(counts, resets, e, max_calls, period, time) ==
    ~(CheckLimitWindow(counts, resets, e, period, time).count >= max_calls)

\* A check_limit that counts the call whether it is within the limit or not.
CheckLimitCountsAlways(counts, resets, e, max_calls, period, time) ==
    LET w == CheckLimitWindow(counts, resets, e, period, time)
    IN  [w EXCEPT !.count = w.count + 1]

\* check_limit's effect on call_counts[endpoint] and last_reset[endpoint]:
\* the counter is incremented when the call is within the limit.
CheckLimitAfter(counts, resets, e, max_calls, period, time) ==
    LET w == CheckLimitWindow(counts, resets, e, period, time)
    IN  IF CheckLimitAdmits(counts, resets, e, max_calls, period, time)
        THEN [w EXCEPT !.count = w.count + 1] ELSE w

Put(f, k, v) == [x \in DOMAIN f \cup {k} |-> IF x = k THEN v ELSE f[x]]

NoCall == [func |-> "none", issued |-> 0, windowAtIssue |-> -1,
           countAtIssue |-> 0, sleeps |-> 0, waits |-> 0, admittedAt |-> -1]

\* A call of a decorated function enters sleep_and_retry's loop.
IssueCall(f) ==
    /\ rpc = "idle"
    /\ Len(admitted) < MaxIssued
    /\ rpc' = "limits"
    /\ rcall' = [func |-> f, issued |-> now,
                 windowAtIssue |-> IF f \in DOMAIN last_reset THEN last_reset[f] ELSE -1,
                 countAtIssue |-> IF f \in DOMAIN call_counts THEN call_counts[f] ELSE 0,
                 sleeps |-> 0, waits |-> 0, admittedAt |-> -1]
    /\ UNCHANGED <<call_counts, last_reset, limits, admitted, rsleep, now, ticks>>
    /\ RateFrame

\* ratelimit.limits: the wrapper's window and count, then pass or raise
\* RateLimitException(period_remaining), which sleep_and_retry turns into a sleep.
LimitsAfter(l, period, time) ==
    LET remaining == period - (time - l.last_reset)
        w == IF remaining <= 0 THEN [num_calls |-> 0, last_reset |-> time] ELSE l
    IN  [w EXCEPT !.num_calls = w.num_calls + 1]

LimitsWrapper ==
    /\ rpc = "limits"
    /\ LET f == rcall.func
           remaining == Period - (now - limits[f].last_reset)
           after == LimitsAfter(limits[f], Period, now)
       IN  /\ limits' = [limits EXCEPT ![f] = after]
           /\ IF after.num_calls > Calls
              THEN rpc' = "limits_sleep" /\ rsleep' = remaining
              ELSE rpc' = "check" /\ rsleep' = 0
    /\ UNCHANGED <<call_counts, last_reset, rcall, admitted, now, ticks>>
    /\ RateFrame

\* time.sleep(seconds): returns after at least `seconds` (a negative or zero
\* argument to the model's sleep returns at once).
Sleep(seconds) ==
    \E extra \in {0, 1} : now' = now + (IF seconds > 0 THEN seconds ELSE 0) + extra

\* sleep_and_retry: time.sleep(exception.period_remaining), then call again.
LimitsSleep ==
    /\ rpc = "limits_sleep"
    /\ Sleep(rsleep)
    /\ rpc' = "limits"
    /\ rsleep' = 0
    /\ rcall' = [rcall EXCEPT !.sleeps = rcall.sleeps + 1]
    /\ UNCHANGED <<call_counts, last_reset, limits, admitted, ticks>>
    /\ RateFrame

\* The function is called: the call is admitted.
Admit(f, w) ==
    /\ rpc' = "idle"
    /\ rcall' = [rcall EXCEPT !.admittedAt = now]
    /\ admitted' = Append(admitted, [endpoint |-> f, at |-> now, window |-> w.reset])

\* rate_limit.async_wrapper, lines 120-126: `if not limiter.check_limit(...)`.
WrapperCheckLimit ==
    /\ rpc = "check"
    /\ LET f == rcall.func
           w == CheckLimitAfter(call_counts, last_reset, f, Calls, Period, now)
       IN  /\ call_counts' = Put(call_counts, f, w.count)
           /\ last_reset' = Put(last_reset, f, w.reset)
           /\ IF CheckLimitAdmits(call_counts, last_reset, f, Calls, Period, now)
              THEN Admit(f, w)
              ELSE rpc' = "wait" /\ UNCHANGED <<rcall, admitted>>
    /\ UNCHANGED <<limits, rsleep, now, ticks>>
    /\ RateFrame

\* RateLimiter.wait_if_needed, lines 77-81: `while not self.check_limit(...)`,
\* then the wait time of the loop's body.
WaitIfNeeded ==
    /\ rpc = "wait"
    /\ LET f == rcall.func
           w == CheckLimitAfter(call_counts, last_reset, f, Calls, Period, now)
           wait_time == Period - (now - w.reset)
       IN  /\ call_counts' = Put(call_counts, f, w.count)
           /\ last_reset' = Put(last_reset, f, w.reset)
           /\ IF CheckLimitAdmits(call_counts, last_reset, f, Calls, Period, now)
              THEN Admit(f, w) /\ rsleep' = 0
              ELSE /\ UNCHANGED <<rcall, admitted>>
                   /\ IF wait_time > 0
                      THEN rpc' = "wait_sleep" /\ rsleep' = wait_time
                      ELSE rpc' = "wait" /\ rsleep' = 0
    /\ UNCHANGED <<limits, now, ticks>>
    /\ RateFrame

\* wait_if_needed, line 81: time.sleep(wait_time), then the loop's test again.
WaitSleep ==
    /\ rpc = "wait_sleep"
    /\ Sleep(rsleep)
    /\ rpc' = "wait"
    /\ rsleep' = 0
    /\ rcall' = [rcall EXCEPT !.waits = rcall.waits + 1]
    /\ UNCHANGED <<call_counts, last_reset, limits, admitted, ticks>>
    /\ RateFrame

\* Time passes between two calls.
RateTick ==
    /\ rpc = "idle"
    /\ ticks < MaxRateTicks
    /\ now' = now + 1
    /\ ticks' = ticks + 1
    /\ UNCHANGED <<call_counts, last_reset, limits, rcall, rpc, rsleep, admitted>>
    /\ RateFrame

\* RateLimiter.__init__, and the limits decorators made when the services
\* are imported (time 0 of the model).
RateInit ==
    /\ call_counts = << >>
    /\ last_reset = << >>
    /\ limits = [f \in Endpoints |-> [num_calls |-> 0, last_reset |-> 0]]
    /\ rcall = NoCall
    /\ rpc = "idle"
    /\ rsleep = 0
    /\ admitted = << >>

RateNext ==
    \/ \E f \in Endpoints : IssueCall(f)
    \/ LimitsWrapper
    \/ LimitsSleep
    \/ WrapperCheckLimit
    \/ WaitIfNeeded
    \/ WaitSleep
    \/ RateTick

\* The calls of endpoint e admitted in the window that started at w.
AdmittedIn(e, w) ==
    {i \in 1..Len(admitted) : admitted[i].endpoint = e /\ admitted[i].window = w}

\* The budget of the call's endpoint was used up when the call was issued:
\* it is the (maxCalls+1)-th call inside the window.
ExhaustedAtIssue ==
    /\ rcall.windowAtIssue # -1
    /\ rcall.issued - rcall.windowAtIssue < Period
    /\ rcall.countAtIssue >= Calls

\* The window of the call's endpoint had ended when the call was issued (or
\* the endpoint had no window yet).
WindowOverAtIssue ==
    \/ rcall.windowAtIssue = -1
    \/ rcall.issued - rcall.windowAtIssue >= Period

\* C2: per endpoint and window of Period seconds at most Calls calls are
\* admitted and the call count never exceeds Calls; the (Calls+1)-th call
\* issued inside a window is not admitted before the window resets and is
\* admitted by the first test after its wait; a call issued once the window
\* has ended is admitted without delay.
C2_WindowBudget ==
    /\ \A e \in DOMAIN call_counts : call_counts[e] <= Calls
    /\ \A i \in 1..Len(admitted) :
          /\ Cardinality(AdmittedIn(admitted[i].endpoint, admitted[i].window)) <= Calls
          /\ admitted[i].window <= admitted[i].at
          /\ admitted[i].at < admitted[i].window + Period
    /\ (rcall.admittedAt # -1 /\ ExhaustedAtIssue) =>
          rcall.admittedAt >= rcall.windowAtIssue + Period
    /\ (rpc = "wait" /\ rcall.waits >= 1) =>
          CheckLimitAdmits(call_counts, last_reset, rcall.func, Calls, Period, now)
    /\ (rpc = "limits" /\ rcall.sleeps >= 1) =>
          LimitsAfter(limits[rcall.func], Period, now).num_calls <= Calls
    /\ (rcall.admittedAt # -1 /\ WindowOverAtIssue) =>
          rcall.admittedAt = rcall.issued

\* The (Calls+1)-th call of a window was held back, and admitted after the reset.
C2_Witness ==
    /\ rcall.admittedAt # -1
    /\ ExhaustedAtIssue
    /\ rcall.waits >= 1
    /\ rcall.admittedAt > rcall.issued

\* The calls of the endpoint of the i-th admitted call that were admitted in
\* the Period seconds that start with that call.
AdmittedWithinPeriodOf(i) ==
    {j \in 1..Len(admitted) :
        /\ admitted[j].endpoint = admitted[i].endpoint
        /\ admitted[j].at >= admitted[i].at
        /\ admitted[j].at < admitted[i].at + Period}

\* C18: the budget is a sliding window: for every endpoint, every interval of
\* Period seconds, wherever it starts, holds at most Calls admitted calls of
\* the endpoint (an interval with the most calls starts at one of them).
C18_SlidingWindow ==
    \A i \in 1..Len(admitted) : Cardinality(AdmittedWithinPeriodOf(i)) <= Calls

----------------------------------------------------------------------------
(* utils/rate_limiter.py: retry_with_backoff, and the functions it wraps:  *)
(* the fetchers of services/ (behind @cached), and a function that raises. *)
(* agent_DEPLOYED.py's fetch_crypto_price has no wrapper and keeps its     *)
(* result in the module's dict cache.  The rate_limit wrapper in front of  *)
(* the services' fetchers only delays a call (SpecRate).                   *)

\* failing_function stands for any function that raises to its wrapper
\* (the example at the end of rate_limiter.py).
Fetchers == {"get_token_price", "get_trending_tokens", "_fetch_feed", "fetch_crypto_price"}
Funcs == Fetchers \cup {"failing_function"}

\* The functions decorated with retry_with_backoff, and with cached.
HasRetry(f) == f # "fetch_crypto_price"
HasCached(f) == f \in {"get_token_price", "get_trending_tokens"}

\* The decorators' arguments.
PriceRetries == 3
NewsRetries == 2
PriceTTL == 120
TrendingTTL == 300
\* retry_with_backoff's defaults.
BaseDelay == 1
MaxDelay == 60
ExponentialBase == 2

\* Bounds of the model: the largest max_retries of failing_function, the
\* number of calls and of clock ticks between calls.
MaxRetries == 3
\* A max_delay small enough to cap the delays of MaxRetries retries.
SmallMaxDelay == 3
MaxCalls == 2
MaxFetchTicks == 2

RetriesOf(f) ==
    IF f = "_fetch_feed" THEN {NewsRetries}
    ELSE IF f = "failing_function" THEN 0..MaxRetries
    ELSE {PriceRetries}

\* The max_delay of the decorators: the default on every fetcher.
MaxDelaysOf(f) ==
    IF f = "failing_function" THEN {MaxDelay, SmallMaxDelay} ELSE {MaxDelay}

TTLOf(f) ==
    IF f = "get_token_price" THEN PriceTTL
    ELSE IF f = "get_trending_tokens" THEN TrendingTTL
    ELSE CACHE_DURATION

\* What the upstream does with one request, and the argument of the call.
Outcomes == {"200", "404", "5xx", "timeout", "connection_error", "malformed"}
Transient == {"5xx", "timeout", "connection_error"}
Args == {"valid", "invalid"}

\* The values a fetcher returns: its data, or None / an empty list.
EmptyList == "[]"
OkValue(f) ==
    IF f = "get_token_price" THEN "TokenPrice"
    ELSE IF f = "get_trending_tokens" THEN "trending_tokens"
    ELSE IF f = "_fetch_feed" THEN "articles"
    ELSE IF f = "fetch_crypto_price" THEN "price_dict"
    ELSE "Success after retries"
Unavailable(f) ==
    IF f \in {"get_trending_tokens", "_fetch_feed"} THEN EmptyList ELSE None

Return(v, req) == [kind |-> "return", value |-> v, requested |-> req]
Raise(exc, req) == [kind |-> "raise", value |-> exc, requested |-> req]

\* The statements inside a function's `try:` (the whole body of
\* failing_function) for one upstream outcome: what they return or raise,
\* and whether the request was sent.
TryBlock(f, arg, o) ==
    IF f = "get_token_price" THEN
        IF arg = "invalid" THEN {Raise("ValidationError", FALSE)}
        ELSE IF o = "200" THEN {Return(OkValue(f), TRUE)}
        ELSE IF o = "404" THEN {Return(None, TRUE)}
        ELSE IF o = "5xx" THEN {Raise("ClientResponseError", TRUE)}
        ELSE IF o = "timeout" THEN {Raise("TimeoutError", TRUE)}
        ELSE IF o = "connection_error" THEN {Raise("ClientConnectorError", TRUE)}
        ELSE {Raise("ContentTypeError", TRUE)}
    ELSE IF f = "get_trending_tokens" THEN
        IF o = "200" THEN {Return(OkValue(f), TRUE)}
        ELSE IF o \in {"404", "5xx"} THEN {Raise("ClientResponseError", TRUE)}
        ELSE IF o = "timeout" THEN {Raise("TimeoutError", TRUE)}
        ELSE IF o = "connection_error" THEN {Raise("ClientConnectorError", TRUE)}
        ELSE {Raise("ContentTypeError", TRUE), Return(EmptyList, TRUE)}
    ELSE IF f = "_fetch_feed" THEN
        \* feedparser.parse reports most failures in feed.bozo, with no entries
        IF o = "200" THEN {Return(OkValue(f), TRUE)}
        ELSE {Return(EmptyList, TRUE), Raise("Exception", TRUE)}
    ELSE IF f = "fetch_crypto_price" THEN
        IF o = "200" THEN {Return(OkValue(f), TRUE)}
        ELSE IF o \in {"404", "5xx"} THEN {Return(None, TRUE)}
        ELSE IF o = "timeout" THEN {Raise("TimeoutException", TRUE)}
        ELSE IF o = "connection_error" THEN {Raise("ConnectError", TRUE)}
        ELSE {Raise("KeyError", TRUE)}
    ELSE
        IF o = "200" THEN {Return(OkValue(f), FALSE)}
        ELSE {Raise("Exception", FALSE)}

\* A body without its except clauses: what the try block raises, it raises.
Reraise(f, r) == r

\* The fetchers' `except Exception` (after `except aiohttp.ClientError`):
\* log, and return None or [].
ExceptHandler(f, r) ==
    IF r.kind = "raise" THEN Return(Unavailable(f), r.requested) ELSE r

\* The function's body for one upstream outcome.
Body(f, arg, o) ==
    {IF f \in Fetchers THEN ExceptHandler(f, r) ELSE r : r \in TryBlock(f, arg, o)}

\* The lookup in front of the body: cached's `cached_value is not None` on
\* the TTLCache of the decorator's ttl, fetch_crypto_price's `if cached:`.
\* The key of the entry holds the argument (SpecKey has the keys of cached).
CachedHit(f, entry, time) ==
    /\ HasCached(f) \/ f = "fetch_crypto_price"
    /\ Readable(entry, time)
    /\ entry.value # None

\* The store behind the body: cached stores whatever the function returned,
\* fetch_crypto_price stores the data of a 200 response.
Stores(f, r) ==
    /\ r.kind = "return"
    /\ HasCached(f) \/ (f = "fetch_crypto_price" /\ r.value = OkValue(f))

\* retry_with_backoff: `if attempt < max_retries:` sleep and go on.
ShouldRetryOnceMore(a, n) == a <= n
ShouldRetry(a, n) == a < n

\* A delay that grows without the cap of max_delay.
DelayUncapped(a) == BaseDelay * (ExponentialBase ^ a)

\* delay = min(base_delay * (exponential_base ** attempt), max_delay)
Delay(a) ==
    LET d == BaseDelay * (ExponentialBase ^ a)
    IN  IF d < max_delay THEN d ELSE max_delay

\* A caller calls the function.
FetchCall(arg) ==
    /\ fpc \in {"idle", "returned", "raised"}
    /\ fcalls < MaxCalls
    /\ fcalls' = fcalls + 1
    /\ farg' = arg
    /\ attempt' = 0
    /\ last_exception' = None
    /\ delays' = << >>
    /\ func_calls' = << >>
    /\ requests' = << >>
    /\ result' = None
    /\ fpc' = "try"
    /\ UNCHANGED <<func, max_retries, max_delay, fetch_cache, now, ticks>>
    /\ FetchFrame

\* `return await func(*args, **kwargs)`: whatever the call returns ends the
\* loop of retry_with_backoff, a None or an empty result included.
CompletesWithData(r) == r.kind = "return" /\ r.value \notin {None, EmptyList}
Completes(r) == r.kind = "return"

\* What the caller of the (wrapped) function gets from a call that ended as r.
Ended(r) ==
    IF Completes(r)
    THEN /\ fpc' = "returned"
         /\ result' = r.value
         /\ UNCHANGED last_exception
    ELSE /\ last_exception' = r.value
         /\ IF HasRetry(func) /\ ShouldRetry(attempt, max_retries)
            THEN fpc' = "sleep" /\ UNCHANGED result
            ELSE fpc' = "raised" /\ result' = r.value

\* One pass of retry_with_backoff's loop: `return await func(...)`, or the
\* except clause; func is the cached wrapper or the body.  After the last
\* pass the loop ends and last_exception is raised.  An unwrapped function
\* is called once.
RetryAttempt ==
    /\ fpc = "try"
    /\ IF CachedHit(func, fetch_cache[farg], now)
       THEN /\ Ended(Return(fetch_cache[farg].value, FALSE))
            /\ func_calls' = Append(func_calls,
                                    [kind |-> "return", value |-> fetch_cache[farg].value])
            /\ UNCHANGED <<requests, fetch_cache>>
       ELSE \E o \in Outcomes : \E r \in Body(func, farg, o) :
            /\ Ended(r)
            /\ func_calls' = Append(func_calls, [kind |-> r.kind, value |-> r.value])
            /\ requests' = IF r.requested THEN Append(requests, o) ELSE requests
            /\ fetch_cache' = IF Stores(func, r)
                              THEN [fetch_cache EXCEPT ![farg] =
                                      [value |-> r.value, expires |-> now + TTLOf(func)]]
                              ELSE fetch_cache
    /\ UNCHANGED <<func, max_retries, max_delay, farg, attempt, delays, fcalls, now, ticks>>
    /\ FetchFrame

\* `await asyncio.sleep(delay)`, then the next pass of the loop.
RetrySleep ==
    /\ fpc = "sleep"
    /\ Sleep(Delay(attempt))
    /\ delays' = Append(delays, Delay(attempt))
    /\ attempt' = attempt + 1
    /\ IF attempt + 1 \in 0..max_retries
       THEN fpc' = "try" /\ UNCHANGED result
       ELSE fpc' = "raised" /\ result' = last_exception
    /\ UNCHANGED <<func, max_retries, max_delay, farg, last_exception, func_calls, requests,
                   fetch_cache, fcalls, ticks>>
    /\ FetchFrame

\* Time passes between two calls.
FetchTick ==
    /\ fpc \in {"idle", "returned", "raised"}
    /\ ticks < MaxFetchTicks
    /\ \E t \in Instants({fetch_cache[a].expires : a \in Args}) : now' = t
    /\ ticks' = ticks + 1
    /\ UNCHANGED fetchVars
    /\ FetchFrame

FetchInit ==
    /\ func = "failing_function"
    /\ max_retries = PriceRetries
    /\ max_delay = MaxDelay
    /\ farg = "valid"
    /\ attempt = 0
    /\ last_exception = None
    /\ fpc = "idle"
    /\ delays = << >>
    /\ func_calls = << >>
    /\ requests = << >>
    /\ result = None
    /\ fetch_cache = [a \in Args |-> NoEntry]
    /\ fcalls = 0

FetchNext ==
    \/ \E arg \in Args : FetchCall(arg)
    \/ RetryAttempt
    \/ RetrySleep
    \/ FetchTick

\* The calls of func made by the present call of the wrapper that raised.
FailedCalls == {i \in 1..Len(func_calls) : func_calls[i].kind = "raise"}

\* C3: under retry_with_backoff(max_retries=N) the function is called at most
\* N+1 times; when it fails N times and then succeeds the wrapper returns
\* the value of that call after exactly N sleeps; when it fails N+1 times
\* the wrapper raises that failure after exactly N+1 calls and N sleeps.
C3_RetryContract ==
    HasRetry(func) =>
        /\ Len(func_calls) <= max_retries + 1
        /\ (Len(func_calls) = max_retries + 1 /\ FailedCalls = 1..max_retries) =>
              /\ fpc = "returned"
              /\ result = func_calls[max_retries + 1].value
              /\ Len(delays) = max_retries
        /\ (Len(func_calls) = max_retries + 1 /\ FailedCalls = 1..(max_retries + 1)) =>
              /\ fpc = "raised"
              /\ result = func_calls[max_retries + 1].value
              /\ Len(delays) = max_retries

\* A function that failed twice or more, as often as its max_retries, and
\* then succeeded.
C3_Witness ==
    /\ func = "failing_function"
    /\ max_retries >= 2
    /\ fpc = "returned"
    /\ FailedCalls = 1..max_retries
    /\ Len(delays) = max_retries
    /\ result = OkValue(func)

\* C4: a fetcher under retry_with_backoff whose upstream requests fail
\* transiently reports Unavailable only after max_retries further requests:
\* when it returns None / [] after nothing but transient failures, it has
\* sent max_retries + 1 requests.
C4_TransientFailureIsRetried ==
    ( /\ func \in Fetchers
      /\ HasRetry(func)
      /\ fpc = "returned"
      /\ requests # << >>
      /\ \A i \in 1..Len(requests) : requests[i] \in Transient
      /\ result = Unavailable(func) ) =>
        Len(requests) = max_retries + 1

\* C5: whatever the upstream does and whatever the argument is, a call of a
\* fetcher never ends with an exception for its caller, and what it returns
\* is the fetcher's data (Ok) or None / [] (not found, unavailable).
C5_FetcherAlwaysReturns ==
    func \in Fetchers =>
        /\ fpc # "raised"
        /\ Len(func_calls) >= 1 => fpc = "returned"
        /\ fpc = "returned" => result \in {OkValue(func), None, EmptyList}

\* A fetcher whose request timed out has returned its empty result.
C5_Witness ==
    /\ func = "get_trending_tokens"
    /\ fpc = "returned"
    /\ requests = <<"timeout">>
    /\ result = EmptyList

\* C13: a cache entry is created only after a successful fetch: when the
\* fetcher yields None, [] or {}, nothing a later call would be served is
\* stored, so every entry the lookup accepts holds the data of a fetch.
C13_FailureIsNotCached ==
    \A a \in Args :
        CachedHit(func, fetch_cache[a], now) => fetch_cache[a].value = OkValue(func)

\* The smaller of two numbers.
Smaller(x, y) == IF x < y THEN x ELSE y

\* C19: the delay slept after the failed attempt number a (from 0) is
\* min(base_delay * 2^a, max_delay): the delays never decrease and never
\* exceed max_delay; no delay is slept after the final attempt; when the
\* retries are exhausted the exception raised is the one of the last attempt.
C19_BackoffDelays ==
    HasRetry(func) =>
        /\ \A i \in 1..Len(delays) :
              /\ delays[i] = Smaller(BaseDelay * 2^(i - 1), max_delay)
              /\ delays[i] <= max_delay
              /\ \A j \in i..Len(delays) : delays[i] <= delays[j]
        /\ Len(delays) <= max_retries
        /\ fpc \in {"returned", "raised"} => Len(delays) = Len(func_calls) - 1
        /\ fpc = "raised" =>
              /\ Len(func_calls) = max_retries + 1
              /\ func_calls[Len(func_calls)].kind = "raise"
              /\ result = func_calls[Len(func_calls)].value
              /\ result = last_exception

\* Every retry was used up with a max_delay that cut the last delay short.
C19_Witness ==
    /\ func = "failing_function"
    /\ fpc = "raised"
    /\ max_retries = MaxRetries
    /\ Len(delays) = max_retries
    /\ BaseDelay * 2^(max_retries - 1) > max_delay
    /\ delays[Len(delays)] = max_delay
    /\ delays[1] < max_delay

\* C20: a 404 answer of the price API is never retried: the call of
\* get_token_price that received it has made exactly one upstream request,
\* has slept no delay and has returned the not-found result.
C20_NotFoundIsNotRetried ==
    (func = "get_token_price" /\ \E i \in 1..Len(requests) : requests[i] = "404") =>
        /\ requests = <<"404">>
        /\ Len(func_calls) = 1
        /\ delays = << >>
        /\ fpc = "returned"
        /\ result = None

\* get_token_price was answered 404 for a well-formed symbol.
C20_Witness ==
    /\ func = "get_token_price"
    /\ farg = "valid"
    /\ requests = <<"404">>
    /\ fpc = "returned"
    /\ result = None
    /\ max_retries = PriceRetries

----------------------------------------------------------------------------
(* utils/cache.py: the `cached` decorator on the methods of the services,  *)
(* with the memory cache.  The wrapper makes a key from the function's     *)
(* name and the arguments of the call, returns the entry of that key when  *)
(* it is not None, and otherwise calls the function and stores what it     *)
(* returned: the object itself, not a copy.  The objects live in `heap`;   *)
(* what the cache holds and what a call returns is a reference.            *)

\* An argument of a call: the name of its type and its value, a tuple of
\* strings (the items of a list; the one value of a str or an int; the
\* configuration of a service instance).
Arg(type, repr) == [type |-> type, repr |-> repr]
Str(s) == Arg("str", <<s>>)
List(items) == Arg("list", items)

\* Two PriceService instances with different base_url / api_key, and the
\* NewsService.
PriceServices == {Arg("PriceService", <<"coingecko">>), Arg("PriceService", <<"coingecko_pro">>)}
TheNewsService == Arg("NewsService", <<"default_feeds">>)

Symbols == {"bitcoin", "ethereum"}
SymbolLists == {<<"bitcoin">>, <<"ethereum">>, <<"bitcoin", "ethereum">>}

\* The calls of the model: the function and its positional arguments, self
\* first.
Call(f, args) == [func |-> f, args |-> args]
CachedCalls ==
    {Call("get_token_price", <<svc, Str(s)>>) : svc \in PriceServices, s \in Symbols}
        \cup {Call("get_multiple_prices", <<svc, List(l)>>) :
                 svc \in PriceServices, l \in SymbolLists}
        \cup {Call("fetch_all_news", <<TheNewsService, Arg("int", <<"10">>)>>)}

NewsTTL == 900
KeyTTLOf(f) == IF f = "fetch_all_news" THEN NewsTTL ELSE PriceTTL

\* Bounds of the model.
MaxKeyCalls == 3
MaxKeyTicks == 2

\* _generate_key: the part of the key an argument gives: str(arg) for a str,
\* int, float or bool, the name of the type for anything else.
KeyPart(arg) ==
    IF arg.type \in {"str", "int", "float", "bool"} THEN arg.repr ELSE <<arg.type>>

\* CacheManager._generate_key(func_name, args, kwargs) for a call without
\* keyword arguments: key_parts, which "|".join and md5 turn into the key
\* (md5 taken to be free of collisions on these strings).
generate_key(func_name, args) ==
    <<func_name, [i \in 1..Len(args) |-> KeyPart(args[i])]>>

\* The entry of a key: the reference stored, when it expires, and the
\* contents the object had when it was stored.
KeyEntry(ref, expires, original) ==
    [value |-> ref, expires |-> expires, original |-> original]

\* The reference that is None.
NoRef == 0

\* cache_manager.get(cache_key, ttl=ttl): the reference, or None.
KeyLookup(c, key, time) ==
    IF key \in DOMAIN c /\ time < c[key].expires THEN c[key].value ELSE NoRef

\* What the upstream answers to the query of a call: a new object.
Answer(call) == [query |-> call, sentiment |-> None]

NoKeyCall == [call |-> Call("none", << >>), key |-> << >>, hit |-> FALSE,
              result |-> NoRef, returned |-> Answer(Call("none", << >>))]

\* async_wrapper(*args, **kwargs) of cached: the state of the cache and of
\* the heap after the call `call`, and the record of the call.
WrapperKey(call) == generate_key(call.func, call.args)
WrapperHit(call) == KeyLookup(kcache, WrapperKey(call), now) # NoRef
WrapperResult(call) ==
    IF WrapperHit(call) THEN KeyLookup(kcache, WrapperKey(call), now) ELSE Len(heap) + 1
WrapperHeap(call) ==
    IF WrapperHit(call) THEN heap ELSE Append(heap, Answer(call))
WrapperCache(call) ==
    IF WrapperHit(call) THEN kcache
    ELSE LET key == WrapperKey(call)
         IN  [k \in DOMAIN kcache \cup {key} |->
                IF k = key
                THEN KeyEntry(Len(heap) + 1, now + KeyTTLOf(call.func), Answer(call))
                ELSE kcache[k]]
WrapperRecord(call) ==
    [call |-> call, key |-> WrapperKey(call), hit |-> WrapperHit(call),
     result |-> WrapperResult(call), returned |-> WrapperHeap(call)[WrapperResult(call)]]

\* A caller calls a cached method of a service.
CachedCall(call) ==
    /\ kcalls < MaxKeyCalls
    /\ kcalls' = kcalls + 1
    /\ kcache' = WrapperCache(call)
    /\ heap' = WrapperHeap(call)
    /\ klast' = WrapperRecord(call)
    /\ UNCHANGED <<now, ticks>>
    /\ KeyFrame

\* SentimentAnalyzer.analyze_news_batch(articles): the score and the label
\* are written into the articles it was given.
analyze_news_batch(h, ref) == [h EXCEPT ![ref].sentiment = "scored"]

\* QueryHandler._handle_news_query: articles = await fetch_all_news(limit=10),
\* then `articles = self.sentiment_analyzer.analyze_news_batch(articles)`.
HandleNewsQuery ==
    LET call == Call("fetch_all_news", <<TheNewsService, Arg("int", <<"10">>)>>)
    IN  /\ kcalls < MaxKeyCalls
        /\ kcalls' = kcalls + 1
        /\ kcache' = WrapperCache(call)
        /\ heap' = analyze_news_batch(WrapperHeap(call), WrapperResult(call))
        /\ klast' = WrapperRecord(call)
        /\ UNCHANGED <<now, ticks>>
        /\ KeyFrame

\* Time passes between two calls.
KeyTick ==
    /\ ticks < MaxKeyTicks
    /\ \E t \in Instants({kcache[k].expires : k \in DOMAIN kcache}) : now' = t
    /\ ticks' = ticks + 1
    /\ UNCHANGED keyVars
    /\ KeyFrame

KeyInit ==
    /\ kcache = << >>
    /\ heap = << >>
    /\ klast = NoKeyCall
    /\ kcalls = 0

KeyNext ==
    \/ \E call \in CachedCalls : CachedCall(call)
    \/ HandleNewsQuery
    \/ KeyTick

\* C12: distinct queries use distinct cache keys: a call of a cached
\* function that is answered from the cache gets the answer to its own
\* query, never the entry stored by a call with other arguments (another
\* symbol list, another service instance).
C12_DistinctQueriesDistinctKeys ==
    klast.hit => klast.returned.query = klast.call

\* C15: a stored cache value is never mutated: a call answered from the
\* cache gets an object equal to the one that was stored, whatever the
\* callers did with the object they were given before (the news list comes
\* back from the cache as it was fetched, without sentiment).
C15_StoredValueNeverMutated ==
    klast.hit => klast.returned = kcache[klast.key].original

----------------------------------------------------------------------------
(* The news fetchers: NewsService.fetch_all_news of services/news_service.py *)
(* (impl = "handlers": the service QueryHandler asks) and fetch_crypto_news  *)
(* of agent_DEPLOYED.py (impl = "deployed").  Both read the RSS feeds in the *)
(* order of their list, put the entries of the feeds that answered in one    *)
(* list and cut it to `limit`; both sit behind a cache.  The model has the   *)
(* first two feeds of the lists.                                             *)

rss_feeds == <<"CoinDesk", "CoinTelegraph">>
FeedIds == 1..Len(rss_feeds)

\* The entries of a feed, given by their links; "" is an entry without link.
FeedContents ==
    {<< >>, <<"a">>, <<"a", "b">>, <<"b", "a">>, <<"", "a">>, <<"a", "a">>,
     <<"a", "b", "a", "c">>}

\* The limits of the model's calls.
NewsLimits == {1, 3}

\* `for entry in feed.entries[:20]` in _fetch_feed, `feed.entries[:3]` in
\* fetch_crypto_news.
ServiceEntries == 20
DeployedEntries == 3
PerFeed(i) == IF i = "deployed" THEN DeployedEntries ELSE ServiceEntries

\* Bounds of the model: the number of calls and of clock ticks between them.
MaxNewsCalls == 2
MaxNewsTicks == 1

\* The article dict made of the p-th entry of feed f.
Article(f, p) == [url |-> news_feeds[f][p], feed |-> f, pos |-> p]

\* What reading feed f adds to the list of the call: the first entries of a
\* feed that answered.  A feed that failed adds nothing: _fetch_feed returns
\* [] from its `except Exception`, an exception that gather returns is
\* logged, and fetch_crypto_news catches the exception of a feed and goes on.
FeedArticles(i, f, failed) ==
    IF f \in failed THEN << >>
    ELSE [p \in 1..(IF Len(news_feeds[f]) < PerFeed(i) THEN Len(news_feeds[f]) ELSE PerFeed(i))
            |-> Article(f, p)]

\* all_articles: the articles of the feeds, in the order of the list of feeds.
RECURSIVE AllArticles(_, _, _)
AllArticles(i, f, failed) ==
    IF f > Len(rss_feeds) THEN << >>
    ELSE FeedArticles(i, f, failed) \o AllArticles(i, f + 1, failed)

\* fetch_all_news: `if url and url not in seen_urls`.
RECURSIVE UniqueArticles(_, _)
UniqueArticles(all_articles, seen_urls) ==
    IF all_articles = << >> THEN << >>
    ELSE LET article == Head(all_articles)
         IN  IF article.url # "" /\ article.url \notin seen_urls
             THEN <<article>> \o UniqueArticles(Tail(all_articles), seen_urls \cup {article.url})
             ELSE UniqueArticles(Tail(all_articles), seen_urls)

\* NewsArticle(...) of an article dict: the sentiment fields start as None.
NewsArticle(article) ==
    [url |-> article.url, feed |-> article.feed, pos |-> article.pos, sentiment_label |-> None]
\* The dict fetch_crypto_news makes of an entry.
NewsDict(article) == [url |-> article.url, feed |-> article.feed, pos |-> article.pos]

\* The body of fetch_all_news(limit) when the feeds of `failed` fail.
fetch_all_news_body(limit, failed) ==
    LET unique_articles == UniqueArticles(AllArticles("handlers", 1, failed), {})
        cut == Take(unique_articles, limit)
    IN  [k \in 1..Len(cut) |-> NewsArticle(cut[k])]

\* The body of fetch_crypto_news(limit) behind its cache lookup.
fetch_crypto_news_body(limit, failed) ==
    LET all_articles == AllArticles("deployed", 1, failed)
        cut == Take(all_articles, limit)
    IN  [k \in 1..Len(cut) |-> NewsDict(cut[k])]

\* The failures that leave the call as an exception: none.
PropagatingAll(failed) == failed
Propagating(failed) == {}

\* The cache in front of the body.  fetch_all_news is @cached(ttl=900): the
\* key holds the limit, and a stored list is returned while it is readable.
\* fetch_crypto_news uses the key "news" whatever the limit, and `if cached:`
\* takes a stored list that is not empty.
NewsKeys(i) == IF i = "deployed" THEN {0} ELSE NewsLimits
NewsKey(i, limit) == IF i = "deployed" THEN 0 ELSE limit
NewsCacheTTL(i) == IF i = "deployed" THEN CACHE_DURATION ELSE NewsTTL
NoNews == [stored |-> FALSE, value |-> << >>, expires |-> 0]
NewsHit(i, entry, time) ==
    /\ entry.stored
    /\ time < entry.expires
    /\ i = "deployed" => entry.value # << >>

NoNewsCall == [limit |-> 0, failed |-> {}, hit |-> FALSE, result |-> << >>, outcome |-> "none"]

\* One call of the news fetcher with the given limit, while the feeds of
\* `failed` fail.
NewsCall(limit, failed) ==
    /\ ncalls < MaxNewsCalls
    /\ ncalls' = ncalls + 1
    /\ LET key == NewsKey(impl, limit)
           entry == news_cache[key]
           hit == NewsHit(impl, entry, now)
           body == IF impl = "deployed" THEN fetch_crypto_news_body(limit, failed)
                   ELSE fetch_all_news_body(limit, failed)
       IN  IF hit
           THEN /\ ncall' = [limit |-> limit, failed |-> {}, hit |-> TRUE,
                             result |-> entry.value, outcome |-> "return"]
                /\ UNCHANGED news_cache
           ELSE IF Propagating(failed) # {}
           THEN /\ ncall' = [limit |-> limit, failed |-> failed, hit |-> FALSE,
                             result |-> << >>, outcome |-> "raise"]
                /\ news_cache' = [news_cache EXCEPT ![key] =
                                    IF now < entry.expires THEN entry ELSE NoNews]
           ELSE /\ ncall' = [limit |-> limit, failed |-> failed, hit |-> FALSE,
                             result |-> body, outcome |-> "return"]
                /\ news_cache' = [news_cache EXCEPT ![key] =
                                    [stored |-> TRUE, value |-> body,
                                     expires |-> now + NewsCacheTTL(impl)]]
    /\ UNCHANGED <<news_feeds, now, ticks, impl>>
    /\ NewsFrame

\* Time passes between two calls.
NewsTick ==
    /\ ticks < MaxNewsTicks
    /\ \E t \in Instants({news_cache[k].expires : k \in DOMAIN news_cache}) : now' = t
    /\ ticks' = ticks + 1
    /\ UNCHANGED <<news_feeds, news_cache, ncall, ncalls, impl>>
    /\ NewsFrame

NewsInit ==
    /\ news_feeds = [f \in FeedIds |-> << >>]
    /\ news_cache = [k \in NewsLimits |-> NoNews]
    /\ ncall = NoNewsCall
    /\ ncalls = 0

NewsNext ==
    \/ \E limit \in NewsLimits, failed \in SUBSET FeedIds : NewsCall(limit, failed)
    \/ NewsTick

\* The articles the feeds that answered gave the call that just ended.
Delivered ==
    AllArticles(impl, 1, ncall.failed)
\* The place in Delivered of the article the k-th article of the result was made of.
PlaceOf(k) ==
    CHOOSE j \in 1..Len(Delivered) :
        Delivered[j].feed = ncall.result[k].feed /\ Delivered[j].pos = ncall.result[k].pos

\* C23: the list the news fetcher returns has no two articles with the same
\* URL, the article kept of a URL is the first one with it in feed order,
\* and the list has at most `limit` elements.
C23_UniqueFirstLimited ==
    ncall.outcome = "return" =>
        /\ Len(ncall.result) <= ncall.limit
        /\ \A j, k \in 1..Len(ncall.result) :
              j # k => ncall.result[j].url # ncall.result[k].url
        /\ ~ncall.hit =>
              \A k \in 1..Len(ncall.result) :
                  \A j \in 1..Len(Delivered) :
                      Delivered[j].url = ncall.result[k].url => PlaceOf(k) <= j

\* C24: the failure of any subset of the feeds does not fail the news call:
\* it returns, every article of its result is one a feed that answered
\* delivered, and every linked article such a feed delivered has its URL in
\* the result unless the result is full.
C24_PartialFailure ==
    (ncall.outcome # "none" /\ ~ncall.hit) =>
        /\ ncall.outcome = "return"
        /\ \A k \in 1..Len(ncall.result) :
              /\ ncall.result[k].feed \notin ncall.failed
              /\ \E j \in 1..Len(Delivered) :
                    /\ Delivered[j].feed = ncall.result[k].feed
                    /\ Delivered[j].pos = ncall.result[k].pos
                    /\ Delivered[j].url = ncall.result[k].url
        /\ \A j \in 1..Len(Delivered) :
              Delivered[j].url # "" =>
                  \/ Len(ncall.result) = ncall.limit
                  \/ \E k \in 1..Len(ncall.result) : ncall.result[k].url = Delivered[j].url

\* The first feed failed and the second one answered with two articles,
\* which the call returned.
C24_Witness ==
    /\ ncall.outcome = "return"
    /\ ~ncall.hit
    /\ ncall.failed = {1}
    /\ news_feeds[1] # << >>
    /\ Len(ncall.result) = 2
    /\ \A k \in 1..2 : ncall.result[k].feed = 2

----------------------------------------------------------------------------
(* services/trending_service.py: get_top_gainers and get_top_losers.  Both *)
(* ask /coins/markets for `limit` coins and keep the coins whose 24h       *)
(* change, as parse_number_string reads it, has the wanted sign; both are  *)
(* @cached(ttl=300), with a key made of the function's name and the limit. *)

\* The price_change_percentage_24h of a coin of the upstream list: a number,
\* a string of a number, a text that is no number, null, or no such key.
Number(n) == [kind |-> "number", n |-> n]
NumberString(n) == [kind |-> "string", n |-> n]
NotANumber == [kind |-> "text", n |-> 0]
Null == [kind |-> "null", n |-> 0]
Absent == [kind |-> "absent", n |-> 0]

\* The upstream lists of the model: the changes of their coins.
MarketLists ==
    {<< >>,
     <<Number(5), Number(0)>>,
     <<Number(-3), Null>>,
     <<Number(-3), Number(5)>>,
     <<NotANumber, NumberString(5)>>,
     <<Absent, NumberString(-3)>>}
MoverLimits == {5}

\* Bounds of the model: the number of calls and of clock ticks between them.
MaxMoverCalls == 3
MaxMoverTicks == 1

\* coin.get('price_change_percentage_24h', 0)
CoinGet(change) == IF change.kind = "absent" THEN Number(0) ELSE change

\* parse_number_string(value): the number of an int or a float and of a
\* string that float() reads; the default 0.0 for None, for an empty value
\* and for a string that float() rejects.
parse_number_string(value) ==
    IF value.kind \in {"number", "string"} THEN value.n ELSE 0

\* get_top_gainers: `if change_24h <= 0: continue`, and a test that lets a
\* change of zero pass.
KeptAsGainerOrFlat(change_24h) == ~(change_24h < 0)
KeptAsGainer(change_24h) == ~(change_24h <= 0)
\* get_top_losers: `if change_24h >= 0: continue`.
KeptAsLoser(change_24h) == ~(change_24h >= 0)

\* The loop over enumerate(data, 1) of the function f: the TrendingToken of
\* every coin that is kept, in the order of the list.
RECURSIVE MoversOf(_, _, _)
MoversOf(f, data, i) ==
    IF i > Len(data) THEN << >>
    ELSE LET change_24h == parse_number_string(CoinGet(data[i]))
             kept == IF f = "get_top_gainers" THEN KeptAsGainer(change_24h)
                     ELSE KeptAsLoser(change_24h)
         IN  (IF kept THEN <<[rank |-> i, change_24h |-> change_24h]>> ELSE << >>)
                 \o MoversOf(f, data, i + 1)

\* The body of f for what the upstream did: the movers of the list it sent,
\* [] from `except Exception` when the request failed.
Upstreams == [ok : {TRUE}, data : MarketLists] \cup {[ok |-> FALSE, data |-> << >>]}
MoversBody(f, upstream) ==
    IF upstream.ok THEN MoversOf(f, upstream.data, 1) ELSE << >>

MoverFuncs == {"get_top_gainers", "get_top_losers"}
MoverKeys == MoverFuncs \X MoverLimits
NoMovers == [stored |-> FALSE, value |-> << >>, expires |-> 0]
NoMoverCall == [func |-> "none", limit |-> 0, hit |-> FALSE, result |-> << >>]

\* One call of f(limit) through cached's wrapper: the stored list of the key
\* while it is readable; otherwise the body, whose result is stored.
MoversCall(f, limit, upstream) ==
    /\ mcalls < MaxMoverCalls
    /\ mcalls' = mcalls + 1
    /\ LET entry == mcache[<<f, limit>>]
           hit == entry.stored /\ now < entry.expires
           body == MoversBody(f, upstream)
       IN  IF hit
           THEN /\ mcall' = [func |-> f, limit |-> limit, hit |-> TRUE, result |-> entry.value]
                /\ UNCHANGED mcache
           ELSE /\ mcall' = [func |-> f, limit |-> limit, hit |-> FALSE, result |-> body]
                /\ mcache' = [mcache EXCEPT ![<<f, limit>>] =
                                [stored |-> TRUE, value |-> body, expires |-> now + TrendingTTL]]
    /\ UNCHANGED <<now, ticks, impl>>
    /\ MoversFrame

\* Time passes between two calls.
MoversTick ==
    /\ ticks < MaxMoverTicks
    /\ \E t \in Instants({mcache[k].expires : k \in MoverKeys}) : now' = t
    /\ ticks' = ticks + 1
    /\ UNCHANGED <<mcache, mcall, mcalls, impl>>
    /\ MoversFrame

MoversInit ==
    /\ mcache = [k \in MoverKeys |-> NoMovers]
    /\ mcall = NoMoverCall
    /\ mcalls = 0

MoversNext ==
    \/ \E f \in MoverFuncs, limit \in MoverLimits, upstream \in Upstreams :
          MoversCall(f, limit, upstream)
    \/ MoversTick

\* C25: every entry get_top_gainers returns has a 24h change above zero and
\* every entry get_top_losers returns has one below zero, whatever the
\* upstream list holds and also when the result comes from the cache.
C25_SignOfMovers ==
    \A k \in 1..Len(mcall.result) :
        /\ mcall.func = "get_top_gainers" => mcall.result[k].change_24h > 0
        /\ mcall.func = "get_top_losers" => mcall.result[k].change_24h < 0

\* Losers were served from the cache while the cache held gainers as well.
C25_Witness ==
    /\ mcall.func = "get_top_losers"
    /\ mcall.hit
    /\ mcall.result # << >>
    /\ \E l \in MoverLimits :
          mcache[<<"get_top_gainers", l>>].stored /\ mcache[<<"get_top_gainers", l>>].value # << >>

----------------------------------------------------------------------------
(* The decorator stack of the services' fetchers on the event loop:        *)
(*     @rate_limit(calls, period) @retry_with_backoff(n) @cached(ttl)      *)
(* (services/price_service.py, get_token_price).  Every call is a task of  *)
(* one asyncio event loop, which runs one task at a time and switches at   *)
(* an await that has to wait: the upstream request of the body and the     *)
(* asyncio.sleep of retry_with_backoff.  The limiters wait in time.sleep,  *)
(* which returns to its caller, not to the loop.  The tasks share the      *)
(* RateLimiter (call_counts, last_reset), the limits decorator and the     *)
(* memory cache.                                                           *)

LoopTasks == {1, 2, 3}
LoopEndpoint == "get_token_price"
\* The keys are alike: the calls use them in the order of LoopKeyOrder.
LoopKeyOrder == <<"bitcoin", "ethereum">>
LoopKeys == {LoopKeyOrder[i] : i \in 1..Len(LoopKeyOrder)}
FirstKeys(n) == {LoopKeyOrder[i] : i \in 1..(IF n < Len(LoopKeyOrder) THEN n ELSE Len(LoopKeyOrder))}
\* What the body does with the response: it returns a TokenPrice, it returns
\* None (a 404, or an exception it caught), or it raises to its wrappers
\* (the fetchers of the services catch Exception; a decorated function
\* without such a clause raises).
LoopOutcomes == {"value", "none", "raise"}
\* Bound of the model: how far the clock goes.
MaxLoopTicks == 4

NoThread == 0
NewTask == [pc |-> "new", key |-> "none", attempt |-> 0, wake |-> 0,
            outcome |-> "none", trace |-> << >>, stored |-> -1]
NoLoopEntry == [stored |-> FALSE, value |-> "none", expires |-> 0]

Logged(t, events) == [t EXCEPT !.trace = t.trace \o events]

\* The task waits for the loop only: it was not started yet, or its
\* asyncio.sleep is over.
LoopReady(t) ==
    \/ tasks[t].pc = "new" /\ \A u \in LoopTasks : u < t => tasks[u].pc # "new"
    \/ tasks[t].pc = "backoff" /\ now >= tasks[t].wake

\* check_limit as a task calls it: the RateLimiter afterwards, and whether the
\* call was admitted and whether call_counts[endpoint] was incremented.
LoopCheckLimit(t, admittedPc, refusedPc) ==
    LET e == LoopEndpoint
        before == CheckLimitWindow(call_counts, last_reset, e, Period, now)
        after == CheckLimitAfter(call_counts, last_reset, e, Calls, Period, now)
        admits == CheckLimitAdmits(call_counts, last_reset, e, Calls, Period, now)
        events == IF after.count > before.count THEN <<"charge">> ELSE << >>
        wait_time == Period - (now - after.reset)
    IN  /\ call_counts' = Put(call_counts, e, after.count)
        /\ last_reset' = Put(last_reset, e, after.reset)
        /\ tasks' = [tasks EXCEPT ![t] =
              Logged([@ EXCEPT !.pc = IF admits THEN admittedPc ELSE refusedPc,
                               !.wake = IF admits THEN 0 ELSE now + wait_time], events)]

\* The loop starts a task (the tasks are numbered in the order in which
\* they start): a call of the decorated get_token_price(key) enters
\* sleep_and_retry's loop.
LoopStart(t, key) ==
    /\ running = NoThread
    /\ tasks[t].pc = "new"
    /\ \A u \in LoopTasks : u < t => tasks[u].pc # "new"
    /\ key \in FirstKeys(Cardinality({tasks[u].key : u \in LoopTasks} \ {"none"}) + 1)
    /\ tasks' = [tasks EXCEPT ![t] = [@ EXCEPT !.pc = "limits", !.key = key]]
    /\ running' = t
    /\ UNCHANGED <<call_counts, last_reset, limits, loop_cache, now, ticks>>
    /\ LoopFrame

\* ratelimit.limits: count the call, then pass or raise RateLimitException,
\* which sleep_and_retry answers with time.sleep(period_remaining).
LoopLimits(t) ==
    /\ running = t
    /\ tasks[t].pc = "limits"
    /\ LET l == limits[LoopEndpoint]
           remaining == Period - (now - l.last_reset)
           after == LimitsAfter(l, Period, now)
       IN  /\ limits' = [limits EXCEPT ![LoopEndpoint] = after]
           /\ tasks' = [tasks EXCEPT ![t] =
                 IF after.num_calls > Calls
                 THEN [@ EXCEPT !.pc = "limits_sleep", !.wake = now + remaining]
                 ELSE [@ EXCEPT !.pc = "check"]]
    /\ UNCHANGED <<call_counts, last_reset, running, loop_cache, now, ticks>>
    /\ LoopFrame

\* time.sleep returns: sleep_and_retry calls the wrapper of limits again,
\* wait_if_needed tests its loop's condition again.  The thread was the
\* sleeper's all the time.
LoopSleepReturns(t) ==
    /\ running = t
    /\ tasks[t].pc \in {"limits_sleep", "wait_sleep"}
    /\ now >= tasks[t].wake
    /\ tasks' = [tasks EXCEPT ![t] =
          [@ EXCEPT !.pc = IF @ = "limits_sleep" THEN "limits" ELSE "wait", !.wake = 0]]
    /\ UNCHANGED <<call_counts, last_reset, limits, running, loop_cache, now, ticks>>
    /\ LoopFrame

\* rate_limit.async_wrapper, lines 120-124: `if not limiter.check_limit(...)`.
LoopCheck(t) ==
    /\ running = t
    /\ tasks[t].pc = "check"
    /\ LoopCheckLimit(t, "attempt", "wait")
    /\ UNCHANGED <<limits, running, loop_cache, now, ticks>>
    /\ LoopFrame

\* RateLimiter.wait_if_needed: `while not self.check_limit(...)`, and the
\* time.sleep(wait_time) of the loop's body when wait_time > 0.
LoopWait(t) ==
    /\ running = t
    /\ tasks[t].pc = "wait"
    /\ LoopCheckLimit(t, "attempt", "wait_sleep")
    /\ UNCHANGED <<limits, running, loop_cache, now, ticks>>
    /\ LoopFrame

\* One attempt of retry_with_backoff: `await func(...)` runs cached's
\* wrapper, which returns the entry of the key or calls the body, whose
\* request gives the thread back to the loop.
LoopAttempt(t) ==
    /\ running = t
    /\ tasks[t].pc = "attempt"
    /\ LET entry == loop_cache[tasks[t].key]
           hit == entry.stored /\ now < entry.expires /\ entry.value # "none"
       IN  tasks' = [tasks EXCEPT ![t] =
              IF hit THEN Logged([@ EXCEPT !.pc = "returned"], <<"hit">>)
              ELSE Logged([@ EXCEPT !.pc = "request"], <<"miss", "request">>)]
    /\ running' = NoThread
    /\ UNCHANGED <<call_counts, last_reset, limits, loop_cache, now, ticks>>
    /\ LoopFrame

\* The upstream has answered and the loop resumes the task: the body
\* returns and cached stores what it returned, or the body raises and
\* retry_with_backoff awaits asyncio.sleep(delay) before the next attempt,
\* or raises after the last.
LoopDelay(a) ==
    LET d == BaseDelay * (ExponentialBase ^ a)
    IN  IF d < MaxDelay THEN d ELSE MaxDelay

LoopResume(t, o) ==
    /\ running = NoThread
    /\ tasks[t].pc = "request"
    /\ IF o = "raise"
       THEN /\ tasks' = [tasks EXCEPT ![t] =
                  IF tasks[t].attempt < PriceRetries
                  THEN [@ EXCEPT !.pc = "backoff", !.wake = now + LoopDelay(tasks[t].attempt)]
                  ELSE [@ EXCEPT !.pc = "raised"]]
            /\ UNCHANGED loop_cache
       ELSE /\ loop_cache' = [loop_cache EXCEPT ![tasks[t].key] =
                  [stored |-> TRUE, value |-> o, expires |-> now + PriceTTL]]
            /\ tasks' = [tasks EXCEPT ![t] =
                  [@ EXCEPT !.pc = "returned", !.outcome = o, !.stored = now]]
    /\ UNCHANGED <<call_counts, last_reset, limits, running, now, ticks>>
    /\ LoopFrame

\* asyncio.sleep(delay) is over: `for attempt in range(max_retries + 1)` goes on.
LoopNextAttempt(t) ==
    /\ running = NoThread
    /\ tasks[t].pc = "backoff"
    /\ now >= tasks[t].wake
    /\ tasks' = [tasks EXCEPT ![t] =
          Logged([@ EXCEPT !.pc = "attempt", !.attempt = @ + 1, !.wake = 0], <<"retry">>)]
    /\ running' = t
    /\ UNCHANGED <<call_counts, last_reset, limits, loop_cache, now, ticks>>
    /\ LoopFrame

\* Everything a task does on the loop's thread.
LoopStep(t) ==
    \/ \E key \in LoopKeys : LoopStart(t, key)
    \/ LoopLimits(t)
    \/ LoopSleepReturns(t)
    \/ LoopCheck(t)
    \/ LoopWait(t)
    \/ LoopAttempt(t)
    \/ \E o \in LoopOutcomes : LoopResume(t, o)
    \/ LoopNextAttempt(t)

\* Time passes: while the loop has no timer to serve, or while the running
\* task is inside time.sleep.
LoopTick ==
    /\ ticks < MaxLoopTicks
    /\ \/ /\ running = NoThread
          /\ \A t \in LoopTasks : tasks[t].pc = "backoff" => now < tasks[t].wake
       \/ running # NoThread /\ tasks[running].pc \in {"limits_sleep", "wait_sleep"}
    /\ now' = now + 1
    /\ ticks' = ticks + 1
    /\ UNCHANGED <<call_counts, last_reset, limits, tasks, running, loop_cache>>
    /\ LoopFrame

LoopInit ==
    /\ tasks = [t \in LoopTasks |-> NewTask]
    /\ running = NoThread
    /\ loop_cache = [k \in LoopKeys |-> NoLoopEntry]

LoopNext ==
    \/ \E t \in LoopTasks : LoopStep(t)
    \/ LoopTick

\* C26: a coroutine that the rate limiter delays until its window resets
\* does not keep the other pending coroutines from making progress: while a
\* task waits in wait_if_needed, every task that waits for the loop only
\* can take its next step.
C26_WaitDoesNotBlockOthers ==
    \A a \in LoopTasks, b \in LoopTasks :
        (a # b /\ tasks[a].pc = "wait_sleep" /\ LoopReady(b)) => ENABLED LoopStep(b)

\* The call has passed rate_limit's wrapper.
PastRateLimit(t) == tasks[t].pc \in {"attempt", "request", "backoff", "returned", "raised"}

\* C27: a call passes rate-limit, then retry, then cache: the budget of the
\* endpoint is charged exactly once per call, before the first cache lookup
\* and also when the call ends as a hit; every attempt of the retry loop
\* begins with a cache lookup; a request is made only after a miss.
C27_PipelineOrder ==
    \A t \in LoopTasks :
        LET tr == tasks[t].trace
        IN  /\ PastRateLimit(t) => (tr # << >> /\ tr[1] = "charge")
            /\ \A i \in 1..Len(tr) :
                  /\ tr[i] = "charge" => i = 1
                  /\ tr[i] \in {"hit", "miss"} => (i > 1 /\ tr[i - 1] \in {"charge", "retry"})
                  /\ tr[i] = "request" => (i > 1 /\ tr[i - 1] = "miss")
                  /\ tr[i] = "retry" => (i > 1 /\ tr[i - 1] = "request")
            /\ tasks[t].pc \in {"request", "backoff", "returned", "raised"} =>
                  tr[Len(tr)] \in {"hit", "request"}
            /\ tasks[t].pc = "attempt" => tr[Len(tr)] \in {"charge", "retry"}

\* A call missed, its body raised, and its second attempt ended as a hit
\* on the entry another call stored meanwhile.
C27_Witness ==
    \E t \in LoopTasks :
        /\ tasks[t].pc = "returned"
        /\ tasks[t].trace = <<"charge", "miss", "request", "retry", "hit">>
        /\ \E u \in LoopTasks : tasks[u].trace = <<"charge", "hit">>

\* C28: overlapping calls of the cached fetcher for one key behave as if run
\* one after the other, so the fetch runs at most once per key and TTL
\* window: two calls that both fetched and stored the data of one key did
\* so at least a TTL apart.
C28_OneFetchPerWindow ==
    \A a \in LoopTasks, b \in LoopTasks :
        (/\ a # b
         /\ tasks[a].key = tasks[b].key
         /\ tasks[a].outcome = "value" /\ tasks[b].outcome = "value"
         /\ tasks[a].stored # -1 /\ tasks[b].stored # -1
         /\ tasks[a].stored <= tasks[b].stored)
            => tasks[b].stored - tasks[a].stored >= PriceTTL

----------------------------------------------------------------------------
(* agents/crypto_agent.py: handle_chat_request and the query counters of   *)
(* AgentState.  The handler awaits handle_query and ctx.send; the handlers *)
(* of several requests can be at their awaits at the same time.            *)

ChatRequests == {1, 2, 3}
\* How an awaited call ends.
AwaitOutcomes == {"returned", "raised"}

NewChat == [pc |-> "new", succeeded |-> FALSE, failed |-> FALSE]

\* AgentState's counters at construction (models.py, the defaults).
NewAgentState == [total_queries |-> 0, successful_queries |-> 0, failed_queries |-> 0]

\* The `except Exception` clause, line 167: self.state.failed_queries += 1,
\* then the error response is sent.
ExceptClause(r) ==
    /\ state' = [state EXCEPT !.failed_queries = @ + 1]
    /\ chats' = [chats EXCEPT ![r] = [@ EXCEPT !.pc = "send_error", !.failed = TRUE]]

\* Lines 137-146: the request arrives, total_queries += 1, and the handler
\* awaits handle_query.
ReceiveChat(r) ==
    /\ chats[r].pc = "new"
    /\ state' = [state EXCEPT !.total_queries = @ + 1]
    /\ chats' = [chats EXCEPT ![r] = [@ EXCEPT !.pc = "handle_query"]]
    /\ AgentFrame

\* Lines 146-153: handle_query is over; successful_queries += 1 and the
\* handler awaits ctx.send (handle_query catches what its handlers raise;
\* what it raises all the same goes to the except clause).
QueryHandled(r, o) ==
    /\ chats[r].pc = "handle_query"
    /\ IF o = "returned"
       THEN /\ state' = [state EXCEPT !.successful_queries = @ + 1]
            /\ chats' = [chats EXCEPT ![r] = [@ EXCEPT !.pc = "send", !.succeeded = TRUE]]
       ELSE ExceptClause(r)
    /\ AgentFrame

\* Lines 153-161: ctx.send is over; when it raised, the except clause runs.
ResponseSent(r, o) ==
    /\ chats[r].pc = "send"
    /\ IF o = "returned"
       THEN chats' = [chats EXCEPT ![r] = [@ EXCEPT !.pc = "done"]] /\ UNCHANGED state
       ELSE ExceptClause(r)
    /\ AgentFrame

\* Lines 170-177: the ctx.send of the error response is over; what it raises
\* leaves the handler.
ErrorSent(r, o) ==
    /\ chats[r].pc = "send_error"
    /\ chats' = [chats EXCEPT ![r] = [@ EXCEPT !.pc = IF o = "returned" THEN "done" ELSE "raised"]]
    /\ UNCHANGED state
    /\ AgentFrame

AgentInit ==
    /\ state = NewAgentState
    /\ chats = [r \in ChatRequests |-> NewChat]

AgentNext ==
    \/ \E r \in ChatRequests : ReceiveChat(r)
    \/ \E r \in ChatRequests, o \in AwaitOutcomes : QueryHandled(r, o)
    \/ \E r \in ChatRequests, o \in AwaitOutcomes : ResponseSent(r, o)
    \/ \E r \in ChatRequests, o \in AwaitOutcomes : ErrorSent(r, o)

\* C29: successful_queries + failed_queries <= total_queries, and no chat
\* request is counted both as successful and as failed, also when the
\* response cannot be sent and when several requests are in flight.
C29_CountersAddUp ==
    /\ state.successful_queries + state.failed_queries <= state.total_queries
    /\ \A r \in ChatRequests : ~(chats[r].succeeded /\ chats[r].failed)

----------------------------------------------------------------------------
(* knowledge/context_manager.py: ContextManager, and ConversationContext   *)
(* of agents/models.py.  A context lives in ContextManager.contexts and,   *)
(* once saved, under "context:<user>" in the manager's cache.              *)

ContextUsers == {"alice", "bob"}
\* The values of max_messages given to ContextManager (config.py has 10).
MaxMessagesValues == {2, 10, 12}
\* ConversationContext.add_message: `if len(self.messages) > 10`.
KeptMessages == 10
\* Bound of the model: how many messages of a user arrive before the user's
\* context is cleared (a message is its number among them).
MaxArrivals == 11

NoContext == [present |-> FALSE, messages |-> << >>]
NoLookup == [user |-> "none", found |-> FALSE, cleared |-> FALSE]

\* messages[-n:]
LastN(ms, n) == IF Len(ms) > n THEN SubSeq(ms, Len(ms) - n + 1, Len(ms)) ELSE ms

\* ConversationContext.add_message(message): append, and keep the last 10.
ContextAddMessage(messages, chat_message) ==
    LET appended == Append(messages, chat_message)
    IN  IF Len(appended) > KeptMessages THEN LastN(appended, KeptMessages) ELSE appended

\* ContextManager.get_context(user_id, create_if_missing): the context in
\* memory, else the one saved in the cache, else a new one or None.
GetContext(user_id, create_if_missing) ==
    IF contexts[user_id].present THEN contexts[user_id]
    ELSE IF saved_contexts[user_id].present THEN saved_contexts[user_id]
    ELSE IF create_if_missing THEN [present |-> TRUE, messages |-> << >>]
    ELSE NoContext

\* ContextManager.add_message(user_id, message): get or create the context,
\* add the message to it, save it.
AddMessage(user_id) ==
    /\ Len(arrived[user_id]) < MaxArrivals
    /\ LET context == GetContext(user_id, TRUE)
           chat_message == Len(arrived[user_id]) + 1
           after == [context EXCEPT !.messages = ContextAddMessage(@, chat_message)]
       IN  /\ contexts' = [contexts EXCEPT ![user_id] = after]
           /\ saved_contexts' = [saved_contexts EXCEPT ![user_id] = after]
    /\ arrived' = [arrived EXCEPT ![user_id] = Append(@, Len(@) + 1)]
    /\ cleared' = [cleared EXCEPT ![user_id] = FALSE]
    /\ UNCHANGED <<max_messages, lookup>>
    /\ ContextFrame

\* ContextManager.clear_context(user_id): del self.contexts[user_id], and
\* self.cache.delete("context:<user>").
ClearContext(user_id) ==
    /\ contexts' = [contexts EXCEPT ![user_id] = NoContext]
    /\ saved_contexts' = [saved_contexts EXCEPT ![user_id] = NoContext]
    /\ arrived' = [arrived EXCEPT ![user_id] = << >>]
    /\ cleared' = [cleared EXCEPT ![user_id] = TRUE]
    /\ UNCHANGED <<max_messages, lookup>>
    /\ ContextFrame

\* get_context(user_id, create_if_missing=False): a context found in the
\* cache is put back into memory.
LookupContext(user_id) ==
    /\ LET context == GetContext(user_id, FALSE)
       IN  /\ lookup' = [user |-> user_id, found |-> context.present, cleared |-> cleared[user_id]]
           /\ contexts' = [contexts EXCEPT ![user_id] = context]
    /\ UNCHANGED <<max_messages, saved_contexts, arrived, cleared>>
    /\ ContextFrame

\* The process starts again: the contexts in memory are gone, the cache on
\* disk is not.
RestartAgent ==
    /\ contexts' = [u \in ContextUsers |-> NoContext]
    /\ UNCHANGED <<max_messages, saved_contexts, arrived, cleared, lookup>>
    /\ ContextFrame

ContextInit ==
    /\ max_messages \in MaxMessagesValues
    /\ contexts = [u \in ContextUsers |-> NoContext]
    /\ saved_contexts = [u \in ContextUsers |-> NoContext]
    /\ arrived = [u \in ContextUsers |-> << >>]
    /\ cleared = [u \in ContextUsers |-> FALSE]
    /\ lookup = NoLookup

ContextNext ==
    \/ \E u \in ContextUsers : AddMessage(u)
    \/ \E u \in ContextUsers : ClearContext(u)
    \/ \E u \in ContextUsers : LookupContext(u)
    \/ RestartAgent

\* C30: a user's context holds at most max_messages messages, the most
\* recent ones in the order of their arrival; after clear_context(user),
\* get_context(user, create_if_missing=False) finds no context.
C30_ContextWindow ==
    /\ \A u \in ContextUsers :
          contexts[u].present =>
              /\ Len(contexts[u].messages) <= max_messages
              /\ contexts[u].messages = LastN(arrived[u], max_messages)
    /\ lookup.cleared => ~lookup.found

----------------------------------------------------------------------------
(* agent_DEPLOYED_ENHANCED.py / agent_DEPLOYED.py: extract_intent and      *)
(* extract_crypto_tokens (the two files have the same text for both, and   *)
(* the same TOKEN_MAP).  A text is a tuple of characters.                  *)

LowerCase == <<"a", "b", "c", "d", "e", "f", "g", "h", "i", "j", "k", "l", "m", "n", "o", "p", "q", "r", "s", "t", "u", "v", "w", "x", "y", "z">>
UpperCase == <<"A", "B", "C", "D", "E", "F", "G", "H", "I", "J", "K", "L", "M", "N", "O", "P", "Q", "R", "S", "T", "U", "V", "W", "X", "Y", "Z">>
Digits == <<"0", "1", "2", "3", "4", "5", "6", "7", "8", "9">>

\* str.lower(), on the characters of the model's texts.
LowerOf == [i \in 1..Len(UpperCase) |-> <<UpperCase[i], LowerCase[i]>>]
UpperChars == {UpperCase[i] : i \in 1..Len(UpperCase)}
LowerChar(c) ==
    IF c \in UpperChars
    THEN LowerOf[CHOOSE i \in 1..Len(UpperCase) : UpperCase[i] = c][2]
    ELSE c
RECURSIVE Lower(_)
Lower(t) == IF t = << >> THEN << >> ELSE <<LowerChar(Head(t))>> \o Lower(Tail(t))

\* `word in text_lower`: word is a substring of the text.
OccursAt(word, t, i) ==
    /\ i + Len(word) - 1 <= Len(t)
    /\ \A j \in 1..Len(word) : t[i + j - 1] = word[j]
IsSubstring(word, t) == \E i \in 1..Len(t) : OccursAt(word, t, i)

\* any(word in text_lower for word in [...])
AnyWordIn(words, t) == \E i \in 1..Len(words) : IsSubstring(words[i], t)

\* The \w of the regular expressions.
WordChars ==
    {LowerCase[i] : i \in 1..Len(LowerCase)} \cup UpperChars
        \cup {Digits[i] : i \in 1..Len(Digits)} \cup {"_"}
IsWordChar(c) == c \in WordChars

\* re.search(r'\b' + re.escape(token_name) + r'\b', text_lower): the name
\* occurs with no word character right before or right after it.
WordSearch(token_name, t) ==
    \E i \in 1..Len(t) :
        /\ OccursAt(token_name, t, i)
        /\ i = 1 \/ ~IsWordChar(t[i - 1])
        /\ i + Len(token_name) - 1 = Len(t) \/ ~IsWordChar(t[i + Len(token_name)])

\* The keyword lists of extract_intent, in the order of its tests.
PriceWords ==
    <<<<"p", "r", "i", "c", "e">>,
      <<"w", "o", "r", "t", "h">>,
      <<"v", "a", "l", "u", "e">>,
      <<"c", "o", "s", "t">>,
      <<"h", "o", "w", " ", "m", "u", "c", "h">>>>
TrendingWords ==
    <<<<"t", "r", "e", "n", "d", "i", "n", "g">>,
      <<"p", "o", "p", "u", "l", "a", "r">>,
      <<"h", "o", "t">>,
      <<"b", "u", "z", "z">>>>
NewsWords ==
    <<<<"n", "e", "w", "s">>,
      <<"h", "e", "a", "d", "l", "i", "n", "e", "s">>,
      <<"l", "a", "t", "e", "s", "t">>,
      <<"u", "p", "d", "a", "t", "e", "s">>>>
SentimentWords ==
    <<<<"s", "e", "n", "t", "i", "m", "e", "n", "t">>,
      <<"f", "e", "e", "l", "i", "n", "g">>,
      <<"m", "o", "o", "d">>,
      <<"o", "p", "i", "n", "i", "o", "n">>>>
StrategyWords ==
    <<<<"s", "t", "r", "a", "t", "e", "g", "y">>,
      <<"i", "n", "v", "e", "s", "t">>,
      <<"p", "o", "r", "t", "f", "o", "l", "i", "o">>,
      <<"r", "e", "c", "o", "m", "m", "e", "n", "d", "a", "t", "i", "o", "n">>,
      <<"s", "t", "a", "k", "e">>,
      <<"s", "t", "a", "k", "i", "n", "g">>>>
MoversWords ==
    <<<<"g", "a", "i", "n", "e", "r">>,
      <<"l", "o", "s", "e", "r">>,
      <<"m", "o", "v", "e", "r">>,
      <<"t", "o", "p">>,
      <<"b", "o", "t", "t", "o", "m">>,
      <<"b", "e", "s", "t">>,
      <<"w", "o", "r", "s", "t">>>>
CompareWords ==
    <<<<"c", "o", "m", "p", "a", "r", "e">>,
      <<"v", "s">>,
      <<"v", "e", "r", "s", "u", "s">>,
      <<"d", "i", "f", "f", "e", "r", "e", "n", "c", "e">>>>
HelpWords ==
    <<<<"h", "e", "l", "p">>,
      <<"w", "h", "a", "t", " ", "c", "a", "n">>,
      <<"c", "a", "p", "a", "b", "i", "l", "i", "t", "i", "e", "s">>,
      <<"h", "o", "w", " ", "t", "o">>,
      <<"g", "u", "i", "d", "e">>>>

\* extract_intent with the test for trending in front of the test for price.
extract_intent_trending_first(t) ==
    LET text_lower == Lower(t)
    IN
        IF AnyWordIn(TrendingWords, text_lower) THEN "trending"
        ELSE IF AnyWordIn(PriceWords, text_lower) THEN "price"
        ELSE IF AnyWordIn(NewsWords, text_lower) THEN "news"
        ELSE IF AnyWordIn(SentimentWords, text_lower) THEN "sentiment"
        ELSE IF AnyWordIn(StrategyWords, text_lower) THEN "strategy"
        ELSE IF AnyWordIn(MoversWords, text_lower) THEN "movers"
        ELSE IF AnyWordIn(CompareWords, text_lower) THEN "compare"
        ELSE IF AnyWordIn(HelpWords, text_lower) THEN "help"
        ELSE "unknown"

\* extract_intent(text): the chain of `if any(...): return ...`.
extract_intent(t) ==
    LET text_lower == Lower(t)
    IN
        IF AnyWordIn(PriceWords, text_lower) THEN "price"
        ELSE IF AnyWordIn(TrendingWords, text_lower) THEN "trending"
        ELSE IF AnyWordIn(NewsWords, text_lower) THEN "news"
        ELSE IF AnyWordIn(SentimentWords, text_lower) THEN "sentiment"
        ELSE IF AnyWordIn(StrategyWords, text_lower) THEN "strategy"
        ELSE IF AnyWordIn(MoversWords, text_lower) THEN "movers"
        ELSE IF AnyWordIn(CompareWords, text_lower) THEN "compare"
        ELSE IF AnyWordIn(HelpWords, text_lower) THEN "help"
        ELSE "unknown"

\* TOKEN_MAP, in the order of the dict literal: <<token_name, token_id>>.
TOKEN_MAP ==
    <<<<<<"b", "t", "c">>, "bitcoin">>,
      <<<<"b", "i", "t", "c", "o", "i", "n">>, "bitcoin">>,
      <<<<"e", "t", "h">>, "ethereum">>,
      <<<<"e", "t", "h", "e", "r", "e", "u", "m">>, "ethereum">>,
      <<<<"s", "o", "l">>, "solana">>,
      <<<<"s", "o", "l", "a", "n", "a">>, "solana">>,
      <<<<"a", "d", "a">>, "cardano">>,
      <<<<"c", "a", "r", "d", "a", "n", "o">>, "cardano">>,
      <<<<"x", "r", "p">>, "ripple">>,
      <<<<"r", "i", "p", "p", "l", "e">>, "ripple">>,
      <<<<"d", "o", "g", "e">>, "dogecoin">>,
      <<<<"d", "o", "g", "e", "c", "o", "i", "n">>, "dogecoin">>,
      <<<<"d", "o", "t">>, "polkadot">>,
      <<<<"p", "o", "l", "k", "a", "d", "o", "t">>, "polkadot">>,
      <<<<"m", "a", "t", "i", "c">>, "matic-network">>,
      <<<<"p", "o", "l", "y", "g", "o", "n">>, "matic-network">>,
      <<<<"a", "v", "a", "x">>, "avalanche-2">>,
      <<<<"a", "v", "a", "l", "a", "n", "c", "h", "e">>, "avalanche-2">>,
      <<<<"l", "i", "n", "k">>, "chainlink">>,
      <<<<"c", "h", "a", "i", "n", "l", "i", "n", "k">>, "chainlink">>,
      <<<<"u", "n", "i">>, "uniswap">>,
      <<<<"u", "n", "i", "s", "w", "a", "p">>, "uniswap">>,
      <<<<"a", "t", "o", "m">>, "cosmos">>,
      <<<<"c", "o", "s", "m", "o", "s">>, "cosmos">>,
      <<<<"l", "t", "c">>, "litecoin">>,
      <<<<"l", "i", "t", "e", "c", "o", "i", "n">>, "litecoin">>,
      <<<<"b", "n", "b">>, "binancecoin">>,
      <<<<"b", "i", "n", "a", "n", "c", "e">>, "binancecoin">>,
      <<<<"n", "e", "a", "r">>, "near">>,
      <<<<"a", "l", "g", "o">>, "algorand">>,
      <<<<"a", "l", "g", "o", "r", "a", "n", "d">>, "algorand">>,
      <<<<"f", "t", "m">>, "fantom">>,
      <<<<"f", "a", "n", "t", "o", "m">>, "fantom">>,
      <<<<"h", "b", "a", "r">>, "hedera-hashgraph">>,
      <<<<"h", "e", "d", "e", "r", "a">>, "hedera-hashgraph">>>>

InSeq(x, s) == \E i \in 1..Len(s) : s[i] = x

\* The loop over TOKEN_MAP.items(): append the id of a name found in the
\* text unless the id is in the list already.
RECURSIVE ScanTokenMap(_, _, _)
ScanTokenMap(i, text_lower, found) ==
    IF i > Len(TOKEN_MAP) THEN found
    ELSE LET token_name == TOKEN_MAP[i][1]
             token_id == TOKEN_MAP[i][2]
         IN  IF WordSearch(token_name, text_lower) /\ ~InSeq(token_id, found)
             THEN ScanTokenMap(i + 1, text_lower, Append(found, token_id))
             ELSE ScanTokenMap(i + 1, text_lower, found)

\* A return of the whole list.
WholeList(found) == found

\* found_tokens[:3]
FirstThree(found) == SubSeq(found, 1, IF Len(found) < 3 THEN Len(found) ELSE 3)

\* extract_crypto_tokens(text)
extract_crypto_tokens(t) == FirstThree(ScanTokenMap(1, Lower(t), << >>))

\* utils/helpers.py, parse_token_symbol: crypto_map, in the order of the dict
\* literal: <<key, value>>.
crypto_map ==
    <<<<<<"b", "i", "t", "c", "o", "i", "n">>, "bitcoin">>,
      <<<<"b", "t", "c">>, "bitcoin">>,
      <<<<"e", "t", "h", "e", "r", "e", "u", "m">>, "ethereum">>,
      <<<<"e", "t", "h">>, "ethereum">>,
      <<<<"c", "a", "r", "d", "a", "n", "o">>, "cardano">>,
      <<<<"a", "d", "a">>, "cardano">>,
      <<<<"s", "o", "l", "a", "n", "a">>, "solana">>,
      <<<<"s", "o", "l">>, "solana">>,
      <<<<"p", "o", "l", "k", "a", "d", "o", "t">>, "polkadot">>,
      <<<<"d", "o", "t">>, "polkadot">>,
      <<<<"r", "i", "p", "p", "l", "e">>, "ripple">>,
      <<<<"x", "r", "p">>, "ripple">>,
      <<<<"d", "o", "g", "e", "c", "o", "i", "n">>, "dogecoin">>,
      <<<<"d", "o", "g", "e">>, "dogecoin">>,
      <<<<"a", "v", "a", "l", "a", "n", "c", "h", "e">>, "avalanche">>,
      <<<<"a", "v", "a", "x">>, "avalanche">>,
      <<<<"p", "o", "l", "y", "g", "o", "n">>, "polygon">>,
      <<<<"m", "a", "t", "i", "c">>, "polygon">>,
      <<<<"c", "h", "a", "i", "n", "l", "i", "n", "k">>, "chainlink">>,
      <<<<"l", "i", "n", "k">>, "chainlink">>,
      <<<<"u", "n", "i", "s", "w", "a", "p">>, "uniswap">>,
      <<<<"u", "n", "i">>, "uniswap">>,
      <<<<"l", "i", "t", "e", "c", "o", "i", "n">>, "litecoin">>,
      <<<<"l", "t", "c">>, "litecoin">>,
      <<<<"c", "o", "s", "m", "o", "s">>, "cosmos">>,
      <<<<"a", "t", "o", "m">>, "cosmos">>,
      <<<<"m", "o", "n", "e", "r", "o">>, "monero">>,
      <<<<"x", "m", "r">>, "monero">>,
      <<<<"s", "t", "e", "l", "l", "a", "r">>, "stellar">>,
      <<<<"x", "l", "m">>, "stellar">>,
      <<<<"a", "l", "g", "o", "r", "a", "n", "d">>, "algorand">>,
      <<<<"a", "l", "g", "o">>, "algorand">>,
      <<<<"t", "r", "o", "n">>, "tron">>,
      <<<<"t", "r", "x">>, "tron">>,
      <<<<"e", "o", "s">>, "eos">>,
      <<<<"a", "a", "v", "e">>, "aave">>,
      <<<<"c", "o", "m", "p", "o", "u", "n", "d">>, "compound">>,
      <<<<"c", "o", "m", "p">>, "compound">>,
      <<<<"m", "a", "k", "e", "r">>, "maker">>,
      <<<<"m", "k", "r">>, "maker">>>>

\* What parse_token_symbol returns: a value of crypto_map, a symbol that is
\* not in the map (as written, in lower case), or None.
KnownSymbol(value) == [id |-> value, symbol |-> << >>]
OtherSymbol(s) == [id |-> "", symbol |-> s]
NoSymbol == [id |-> "", symbol |-> << >>]

\* for key, value in crypto_map.items(): if key in query_lower: return value
RECURSIVE FirstKeyIn(_, _)
FirstKeyIn(i, query_lower) ==
    IF i > Len(crypto_map) THEN NoSymbol
    ELSE IF IsSubstring(crypto_map[i][1], query_lower) THEN KnownSymbol(crypto_map[i][2])
    ELSE FirstKeyIn(i + 1, query_lower)

\* crypto_map.get(symbol_lower, symbol_lower)
CryptoMapGet(symbol_lower) ==
    IF \E i \in 1..Len(crypto_map) : crypto_map[i][1] = symbol_lower
    THEN KnownSymbol(crypto_map[CHOOSE i \in 1..Len(crypto_map) :
                                    crypto_map[i][1] = symbol_lower][2])
    ELSE OtherSymbol(symbol_lower)

\* The end of the longest run of word characters that starts at t[i].
RECURSIVE RunEnd(_, _)
RunEnd(t, i) == IF i < Len(t) /\ IsWordChar(t[i + 1]) THEN RunEnd(t, i + 1) ELSE i

\* re.findall(r'\b[A-Z]{2,5}\b', query): where the symbols start, a symbol
\* being a whole run of word characters made of 2 to 5 capital letters.
UpperSymbolStarts(query) ==
    {i \in 1..Len(query) :
        /\ IsWordChar(query[i])
        /\ i = 1 \/ ~IsWordChar(query[i - 1])
        /\ RunEnd(query, i) - i + 1 \in 2..5
        /\ \A j \in i..RunEnd(query, i) : query[j] \in UpperChars}

\* parse_token_symbol(query)
parse_token_symbol(query) ==
    LET matched == FirstKeyIn(1, Lower(query))
        starts == UpperSymbolStarts(query)
    IN  IF matched # NoSymbol THEN matched
        ELSE IF starts # {}
        THEN LET i == CHOOSE k \in starts : \A j \in starts : k <= j
             IN  CryptoMapGet(Lower(SubSeq(query, i, RunEnd(query, i))))
        ELSE NoSymbol

\* The \s+ of the patterns: the first place from i on that holds no space.
RECURSIVE SkipSpaces(_, _)
SkipSpaces(t, i) == IF i <= Len(t) /\ t[i] = " " THEN SkipSpaces(t, i + 1) ELSE i

\* The rest of both patterns from the start of their first group:
\* (\w+)\s+(?:...)\s+(\w+).  The groups are whole runs of word characters;
\* the result is the two groups and the end of the match, or no groups.
NoGroups == [first |-> << >>, second |-> << >>, end |-> 0]
GroupsFrom(t, i, connectors) ==
    IF i > Len(t) \/ ~IsWordChar(t[i]) THEN NoGroups
    ELSE LET e1 == RunEnd(t, i)
             c == SkipSpaces(t, e1 + 1)
             used == {k \in 1..Len(connectors) : OccursAt(connectors[k], t, c)}
         IN  IF c = e1 + 1 \/ used = {} THEN NoGroups
             ELSE LET p == c + Len(connectors[CHOOSE k \in used : TRUE])
                      s2 == SkipSpaces(t, p)
                  IN  IF s2 = p \/ s2 > Len(t) \/ ~IsWordChar(t[s2]) THEN NoGroups
                      ELSE [first |-> SubSeq(t, i, e1),
                            second |-> SubSeq(t, s2, RunEnd(t, s2)),
                            end |-> RunEnd(t, s2)]

\* r'(\w+)\s+(?:and|vs|versus|or)\s+(\w+)' tried at t[i].
FirstPatternAt(t, i) ==
    GroupsFrom(t, i, <<<<"a", "n", "d">>,
                     <<"v", "s">>,
                     <<"v", "e", "r", "s", "u", "s">>,
                     <<"o", "r">>>>)

\* r'compare\s+(\w+)\s+(?:and|with|to)\s+(\w+)' tried at t[i].
SecondPatternAt(t, i) ==
    LET p == i + Len(<<"c", "o", "m", "p", "a", "r", "e">>)
    IN  IF OccursAt(<<"c", "o", "m", "p", "a", "r", "e">>, t, i) /\ SkipSpaces(t, p) > p
        THEN GroupsFrom(t, SkipSpaces(t, p), <<<<"a", "n", "d">>,
                     <<"w", "i", "t", "h">>,
                     <<"t", "o">>>>)
        ELSE NoGroups

PatternAt(n, t, i) == IF n = 1 THEN FirstPatternAt(t, i) ELSE SecondPatternAt(t, i)

\* re.findall(pattern, query_lower): the matches from left to right, each
\* search starting where the match before ended.
RECURSIVE FindAll(_, _, _)
FindAll(n, t, from) ==
    LET starts == {i \in from..Len(t) : PatternAt(n, t, i) # NoGroups}
    IN  IF starts = {} THEN << >>
        ELSE LET m == PatternAt(n, t, CHOOSE i \in starts : \A j \in starts : i <= j)
             IN  <<m.first, m.second>> \o FindAll(n, t, m.end + 1)

\* for token in match: parsed = parse_token_symbol(token); append it when it
\* is something that is not in the list yet.
RECURSIVE AppendParsed(_, _)
AppendParsed(tokens_, found) ==
    IF found = << >> THEN tokens_
    ELSE LET parsed == parse_token_symbol(Head(found))
         IN  AppendParsed(IF parsed # NoSymbol /\ ~InSeq(parsed, tokens_)
                          THEN Append(tokens_, parsed) ELSE tokens_,
                          Tail(found))

\* parse_multiple_tokens(query)
parse_multiple_tokens(query) ==
    LET query_lower == Lower(query)
        by_patterns == AppendParsed(AppendParsed(<< >>, FindAll(1, query_lower, 1)),
                                    FindAll(2, query_lower, 1))
        single == parse_token_symbol(query)
    IN  IF by_patterns # << >> THEN by_patterns
        ELSE IF single # NoSymbol THEN <<single>>
        ELSE << >>

\* The example messages of the classifier.
ShowTrendingTokens ==
    <<"S", "h", "o", "w", " ", "t", "r", "e", "n", "d", "i", "n", "g", " ", "t", "o", "k", "e", "n", "s">>
TopGainersToday ==
    <<"t", "o", "p", " ", "g", "a", "i", "n", "e", "r", "s", " ", "t", "o", "d", "a", "y">>
CompareBtcAndEth ==
    <<"C", "o", "m", "p", "a", "r", "e", " ", "B", "T", "C", " ", "a", "n", "d", " ", "E", "T", "H">>
JustHelp ==
    <<"h", "e", "l", "p">>
RandomText ==
    <<"a", "s", "d", "k", "f", "j", " ", "r", "a", "n", "d", "o", "m", " ", "t", "e", "x", "t">>
Examples == {ShowTrendingTokens, TopGainersToday, CompareBtcAndEth, JustHelp, RandomText}

\* The words the model types: words of the keyword lists, in either case,
\* and words that are no keyword; token names, with punctuation around them.
IntentVocabulary ==
    {<<"p", "r", "i", "c", "e">>,
     <<"H", "o", "t">>,
     <<"n", "e", "w", "s">>,
     <<"b", "e", "s", "t">>,
     <<"v", "s">>,
     <<"g", "u", "i", "d", "e">>,
     <<"s", "h", "o", "w">>,
     <<"m", "u", "c", "h">>}
TokenVocabulary ==
    {<<"B", "T", "C">>,
     <<"b", "i", "t", "c", "o", "i", "n">>,
     <<"e", "t", "h", "/", "B", "T", "C", ",">>,
     <<"d", "o", "t", "s">>,
     <<"M", "A", "T", "I", "C">>,
     <<"a", "d", "a", "/", "d", "o", "t">>}
\* The words of the queries given to utils/helpers.py: names and symbols of
\* tokens, words that hold a symbol, an unknown symbol and a connector.
SymbolVocabulary ==
    {<<"b", "t", "c">>,
     <<"b", "i", "t", "c", "o", "i", "n">>,
     <<"s", "o", "m", "e", "t", "h", "i", "n", "g">>,
     <<"s", "o", "l", "i", "d">>,
     <<"E", "T", "H">>,
     <<"a", "n", "d">>,
     <<"X", "Y", "Z">>}

\* Bounds of the model: the number of words of a typed message.
MaxIntentWords == 2
MaxTokenWords == 3
MaxSymbolWords == 3

Vocabulary ==
    IF vocab = "intent" THEN IntentVocabulary
    ELSE IF vocab = "tokens" THEN TokenVocabulary
    ELSE SymbolVocabulary
MaxWords ==
    IF vocab = "intent" THEN MaxIntentWords
    ELSE IF vocab = "tokens" THEN MaxTokenWords
    ELSE MaxSymbolWords

\* The user types one more word of the message.
TypeWord(w) ==
    /\ called = {}
    /\ typed < MaxWords
    /\ text \notin Examples
    /\ text' = IF text = << >> THEN w ELSE text \o <<" ">> \o w
    /\ typed' = typed + 1
    /\ UNCHANGED <<vocab, called, intent, found_tokens, parsed_symbol, parsed_tokens>>
    /\ ParseFrame

\* The message is one of the examples.
TypeExample(m) ==
    /\ called = {}
    /\ text = << >>
    /\ text' = m
    /\ typed' = typed + 1
    /\ UNCHANGED <<vocab, called, intent, found_tokens, parsed_symbol, parsed_tokens>>
    /\ ParseFrame

\* intent = extract_intent(message)
CallExtractIntent ==
    /\ impl # "handlers"
    /\ "extract_intent" \notin called
    /\ text # << >>
    /\ intent' = extract_intent(text)
    /\ called' = called \cup {"extract_intent"}
    /\ UNCHANGED <<vocab, text, typed, found_tokens, parsed_symbol, parsed_tokens>>
    /\ ParseFrame

\* tokens = extract_crypto_tokens(message)
CallExtractTokens ==
    /\ impl # "handlers"
    /\ "extract_crypto_tokens" \notin called
    /\ text # << >>
    /\ found_tokens' = extract_crypto_tokens(text)
    /\ called' = called \cup {"extract_crypto_tokens"}
    /\ UNCHANGED <<vocab, text, typed, intent, parsed_symbol, parsed_tokens>>
    /\ ParseFrame

\* QueryHandler._handle_price_query: token = parse_token_symbol(query)
CallParseTokenSymbol ==
    /\ impl = "handlers"
    /\ "parse_token_symbol" \notin called
    /\ text # << >>
    /\ parsed_symbol' = parse_token_symbol(text)
    /\ called' = called \cup {"parse_token_symbol"}
    /\ UNCHANGED <<vocab, text, typed, intent, found_tokens, parsed_tokens>>
    /\ ParseFrame

\* QueryHandler._handle_comparison_query: tokens = parse_multiple_tokens(query)
CallParseMultipleTokens ==
    /\ impl = "handlers"
    /\ "parse_multiple_tokens" \notin called
    /\ text # << >>
    /\ parsed_tokens' = parse_multiple_tokens(text)
    /\ called' = called \cup {"parse_multiple_tokens"}
    /\ UNCHANGED <<vocab, text, typed, intent, found_tokens, parsed_symbol>>
    /\ ParseFrame

ParseInit ==
    /\ vocab = "intent"
    /\ text = << >>
    /\ typed = 0
    /\ called = {}
    /\ intent = "unknown"
    /\ found_tokens = << >>
    /\ parsed_symbol = NoSymbol
    /\ parsed_tokens = << >>

ParseNext ==
    \/ \E w \in Vocabulary : TypeWord(w)
    \/ \E m \in Examples : TypeExample(m)
    \/ CallExtractIntent
    \/ CallExtractTokens
    \/ CallParseTokenSymbol
    \/ CallParseMultipleTokens

\* The intents in the order the classifier tries them, and their keywords.
IntentOrder ==
    <<"price", "trending", "news", "sentiment", "strategy", "movers", "compare", "help">>
KeywordsOf(i) ==
    <<PriceWords, TrendingWords, NewsWords, SentimentWords, StrategyWords,
      MoversWords, CompareWords, HelpWords>>[i]

\* The intents, of the given order, that have a keyword in the text.
MatchingIntents(text_lower) ==
    {i \in 1..Len(IntentOrder) : AnyWordIn(KeywordsOf(i), text_lower)}

\* C6: extract_intent returns the first intent, in the order price, trending,
\* news, sentiment, strategy, movers, compare, help, one of whose keywords is
\* a substring of the lowercased text, and "unknown" exactly when no keyword
\* occurs; the five example messages get trending, movers, compare, help
\* and unknown.
C6_FirstMatchingIntent ==
    "extract_intent" \in called =>
        LET matching == MatchingIntents(Lower(text))
        IN  /\ intent = IF matching = {} THEN "unknown"
                        ELSE IntentOrder[CHOOSE i \in matching :
                                            \A j \in matching : i <= j]
            /\ intent = "unknown" <=> matching = {}
            /\ text = ShowTrendingTokens => intent = "trending"
            /\ text = TopGainersToday => intent = "movers"
            /\ text = CompareBtcAndEth => intent = "compare"
            /\ text = JustHelp => intent = "help"
            /\ text = RandomText => intent = "unknown"

\* A message with a keyword of price after a keyword of a later intent was
\* classified as price.
C6_Witness ==
    /\ "extract_intent" \in called
    /\ Cardinality(MatchingIntents(Lower(text))) >= 2
    /\ 1 \in MatchingIntents(Lower(text))
    /\ LowerChar(text[1]) # "p"
    /\ intent = "price"

\* The places in TOKEN_MAP of the names present in the text, the ids of
\* these names, and the place of the first present name of an id.
PresentAt(text_lower) ==
    {i \in 1..Len(TOKEN_MAP) : WordSearch(TOKEN_MAP[i][1], text_lower)}
IdsAt(places) == {TOKEN_MAP[i][2] : i \in places}
Rank(id, places) ==
    CHOOSE i \in places :
        /\ TOKEN_MAP[i][2] = id
        /\ \A j \in places : TOKEN_MAP[j][2] = id => i <= j

\* C7: extract_crypto_tokens returns at most 3 ids, none twice, each the id
\* of a name present in the text, in the order of TOKEN_MAP, and they are
\* the first ids in that order: all present ids when there are at most 3,
\* otherwise the 3 that come first in TOKEN_MAP.
C7_TokensInTableOrder ==
    "extract_crypto_tokens" \in called =>
        LET places == PresentAt(Lower(text))
            ids == IdsAt(places)
            n == Len(found_tokens)
        IN  /\ n <= 3
            /\ \A i, j \in 1..n : i # j => found_tokens[i] # found_tokens[j]
            /\ \A i \in 1..n : found_tokens[i] \in ids
            /\ \A i, j \in 1..n :
                  i < j => Rank(found_tokens[i], places) < Rank(found_tokens[j], places)
            /\ n = IF Cardinality(ids) < 3 THEN Cardinality(ids) ELSE 3
            /\ \A id \in ids :
                  InSeq(id, found_tokens) \/
                  \A i \in 1..n : Rank(found_tokens[i], places) < Rank(id, places)

\* A text that names more than 3 tokens, not in the order of TOKEN_MAP, one
\* of them by two names: the first 3 of the table were returned.
C7_Witness ==
    /\ "extract_crypto_tokens" \in called
    /\ LowerChar(text[1]) = "a"
    /\ found_tokens = <<"bitcoin", "ethereum", "cardano">>
    /\ Cardinality(IdsAt(PresentAt(Lower(text)))) > 3
    /\ Cardinality(PresentAt(Lower(text))) > Cardinality(IdsAt(PresentAt(Lower(text))))

\* The keys of crypto_map that occur in the text as whole words.
KeysPresent(text_lower) ==
    {i \in 1..Len(crypto_map) : WordSearch(crypto_map[i][1], text_lower)}

\* The texts "btc" and "bitcoin".
JustBtc == <<"b", "t", "c">>
JustBitcoin == <<"b", "i", "t", "c", "o", "i", "n">>

\* C21: the token extractors match aliases as whole words only: a text in
\* which no alias occurs as a whole word yields no token, and the texts "btc"
\* and "bitcoin" yield the id bitcoin; for extract_crypto_tokens and for
\* parse_token_symbol / parse_multiple_tokens, which feed the price and
\* compare handlers.
C21_WholeWordAliases ==
    /\ "extract_crypto_tokens" \in called =>
          /\ PresentAt(Lower(text)) = {} => found_tokens = << >>
          /\ text \in {JustBtc, JustBitcoin} => found_tokens = <<"bitcoin">>
    /\ "parse_token_symbol" \in called =>
          /\ KeysPresent(Lower(text)) = {} => parsed_symbol = NoSymbol
          /\ text \in {JustBtc, JustBitcoin} => parsed_symbol = KnownSymbol("bitcoin")
    /\ "parse_multiple_tokens" \in called =>
          /\ KeysPresent(Lower(text)) = {} => parsed_tokens = << >>
          /\ text \in {JustBtc, JustBitcoin} => parsed_tokens = <<KnownSymbol("bitcoin")>>

----------------------------------------------------------------------------
(* The routing of the two other turn handlers: the keyword chain of        *)
(* process_query in src/agent.py, and QueryHandler._identify_query_type of *)
(* agents/handlers.py.  Both test substrings of the lowered message.       *)

\* The `if ... elif ...` chain of process_query in src/agent.py, named by the
\* intents of extract_intent; "unknown" is its `else:` branch.
agent_route(t) ==
    LET message_lower == Lower(t)
    IN  IF AnyWordIn(<<<<"h", "e", "l", "p">>, <<"w", "h", "a", "t", " ", "c", "a", "n", " ", "y", "o", "u">>, <<"c", "a", "p", "a", "b", "i", "l", "i", "t", "i", "e", "s">>>>, message_lower) THEN "help"
        ELSE IF IsSubstring(<<"t", "r", "e", "n", "d", "i", "n", "g">>, message_lower) THEN "trending"
        ELSE IF AnyWordIn(<<<<"g", "a", "i", "n", "e", "r">>, <<"t", "o", "p", " ", "p", "e", "r", "f", "o", "r", "m", "e", "r">>>>, message_lower) THEN "movers"
        ELSE IF AnyWordIn(<<<<"l", "o", "s", "e", "r">>, <<"w", "o", "r", "s", "t">>>>, message_lower) THEN "movers"
        ELSE IF IsSubstring(<<"n", "e", "w", "s">>, message_lower) THEN "news"
        ELSE IF AnyWordIn(<<<<"s", "t", "r", "a", "t", "e", "g", "y">>, <<"p", "o", "r", "t", "f", "o", "l", "i", "o">>, <<"i", "n", "v", "e", "s", "t">>, <<"a", "l", "l", "o", "c", "a", "t", "i", "o", "n">>>>, message_lower) THEN "strategy"
        ELSE "unknown"

\* The `else:` branch of process_query in src/agent.py: every name of
\* TOKEN_MAP that is a substring of the message, in the order of the table,
\* with no cut and no removal of duplicates.  A name is kept as the id
\* generate_price_response looks up for it (TOKEN_MAP.get(token.lower())).
RECURSIVE agent_tokens(_, _, _)
agent_tokens(i, message_lower, found) ==
    IF i > Len(TOKEN_MAP) THEN found
    ELSE IF IsSubstring(TOKEN_MAP[i][1], message_lower)
         THEN agent_tokens(i + 1, message_lower, Append(found, TOKEN_MAP[i][2]))
         ELSE agent_tokens(i + 1, message_lower, found)

\* QueryHandler._identify_query_type(query), named by the intents of
\* extract_intent; "general" is QueryType.GENERAL.
identify_query_type(t) ==
    LET query_lower == Lower(t)
    IN  IF AnyWordIn(<<<<"p", "r", "i", "c", "e">>, <<"c", "o", "s", "t">>, <<"w", "o", "r", "t", "h">>, <<"v", "a", "l", "u", "e">>>>, query_lower) THEN "price"
        ELSE IF AnyWordIn(<<<<"n", "e", "w", "s">>, <<"l", "a", "t", "e", "s", "t">>, <<"u", "p", "d", "a", "t", "e", "s">>>>, query_lower) THEN "news"
        ELSE IF AnyWordIn(<<<<"t", "r", "e", "n", "d", "i", "n", "g">>, <<"t", "o", "p">>, <<"g", "a", "i", "n", "e", "r", "s">>, <<"l", "o", "s", "e", "r", "s">>>>, query_lower) THEN "trending"
        ELSE IF AnyWordIn(<<<<"s", "t", "r", "a", "t", "e", "g", "y">>, <<"i", "n", "v", "e", "s", "t">>, <<"p", "o", "r", "t", "f", "o", "l", "i", "o">>>>, query_lower) THEN "strategy"
        ELSE IF AnyWordIn(<<<<"c", "o", "m", "p", "a", "r", "e">>, <<"v", "s">>, <<"v", "e", "r", "s", "u", "s">>>>, query_lower) THEN "compare"
        ELSE IF AnyWordIn(<<<<"h", "e", "l", "p">>, <<"h", "o", "w">>, <<"w", "h", "a", "t", " ", "c", "a", "n">>>>, query_lower) THEN "help"
        ELSE "general"

----------------------------------------------------------------------------
(* The risk level of a strategy request: extract_risk_level of             *)
(* agent_DEPLOYED_ENHANCED.py / agent_DEPLOYED.py (the same text in both), *)
(* the tests of the strategy branch of src/agent.py, and the table of      *)
(* strategies.                                                             *)

LowRiskWords ==
    <<<<"l", "o", "w", " ", "r", "i", "s", "k">>,
      <<"c", "o", "n", "s", "e", "r", "v", "a", "t", "i", "v", "e">>,
      <<"s", "a", "f", "e">>,
      <<"s", "t", "a", "b", "l", "e">>>>
HighRiskWords ==
    <<<<"h", "i", "g", "h", " ", "r", "i", "s", "k">>,
      <<"a", "g", "g", "r", "e", "s", "s", "i", "v", "e">>,
      <<"r", "i", "s", "k", "y">>,
      <<"v", "o", "l", "a", "t", "i", "l", "e">>>>

\* extract_risk_level with the test for high in front of the test for low.
extract_risk_level_high_first(t) ==
    LET text_lower == Lower(t)
    IN  IF AnyWordIn(HighRiskWords, text_lower) THEN "high"
        ELSE IF AnyWordIn(LowRiskWords, text_lower) THEN "low"
        ELSE "medium"

\* extract_risk_level(text)
extract_risk_level(t) ==
    LET text_lower == Lower(t)
    IN  IF AnyWordIn(LowRiskWords, text_lower) THEN "low"
        ELSE IF AnyWordIn(HighRiskWords, text_lower) THEN "high"
        ELSE "medium"

\* src/agent.py, the strategy branch of process_query:
\* `if "low" in message_lower or ...: ... elif "high" in message_lower or ...`.
agent_risk_level(message_lower) ==
    IF AnyWordIn(<<<<"l", "o", "w">>,
                <<"c", "o", "n", "s", "e", "r", "v", "a", "t", "i", "v", "e">>,
                <<"s", "a", "f", "e">>>>, message_lower) THEN "low"
    ELSE IF AnyWordIn(<<<<"h", "i", "g", "h">>,
                     <<"a", "g", "g", "r", "e", "s", "s", "i", "v", "e">>,
                     <<"r", "i", "s", "k", "y">>>>, message_lower) THEN "high"
    ELSE "medium"

\* strategies.get(risk_level, strategies["medium"]): the key of the entry.
StrategyEntry(risk_level) ==
    IF risk_level \in {"low", "medium", "high"} THEN risk_level ELSE "medium"

\* Strategy requests: the first of the help text's examples, a request with
\* a phrase of each level, and a request for a high level.
LowRiskInvestmentStrategy ==
    <<"L", "o", "w", "-", "r", "i", "s", "k", " ", "i", "n", "v", "e", "s", "t", "m", "e", "n", "t", " ", "s", "t", "r", "a", "t", "e", "g", "y">>
StableHighRiskStrategy ==
    <<"s", "t", "a", "b", "l", "e", " ", "h", "i", "g", "h", " ", "r", "i", "s", "k", " ", "s", "t", "r", "a", "t", "e", "g", "y">>
RiskyPortfolio ==
    <<"R", "i", "s", "k", "y", " ", "p", "o", "r", "t", "f", "o", "l", "i", "o">>
StrategyQueries == {LowRiskInvestmentStrategy, StableHighRiskStrategy, RiskyPortfolio}

----------------------------------------------------------------------------
(* The turn: process_query of agent_DEPLOYED.py ("deployed") and           *)
(* agent_DEPLOYED_ENHANCED.py ("enhanced"), with query_metta_knowledge in  *)
(* front and enhance_with_asi1 behind the response generators;             *)
(* generate_price_response of these two and of src/agent.py ("agent");     *)
(* QueryHandler._handle_comparison_query of agents/handlers.py             *)
(* ("handlers").  A text is a record: its kind, the sections of a price    *)
(* response, and the length of a text the LLM wrote.                       *)

Text(kind, secs, len) == [kind |-> kind, sections |-> secs, length |-> len]
NoText == Text("none", << >>, 0)
\* "Please specify two cryptocurrencies to compare (e.g., ...)"
ClarificationPrompt == Text("clarification", << >>, 0)
\* "Please specify a cryptocurrency (e.g., ...)"
SpecifyPrompt == Text("specify", << >>, 0)
\* "I'm not sure what you're asking. ..."
NotSureText == Text("not_sure", << >>, 0)
\* "An error occurred while processing your request. ..."
ErrorText == Text("error", << >>, 0)

\* The messages of the model's turns.
CompareBtc ==
    <<"C", "o", "m", "p", "a", "r", "e", " ", "B", "T", "C">>
CompareThem ==
    <<"c", "o", "m", "p", "a", "r", "e", " ", "t", "h", "e", "m">>
BtcPrice ==
    <<"B", "T", "C", " ", "p", "r", "i", "c", "e">>
PriceOnly ==
    <<"p", "r", "i", "c", "e", "?">>
EthVsDots ==
    <<"e", "t", "h", " ", "v", "s", " ", "d", "o", "t", "s">>
Queries == {CompareBtcAndEth, CompareBtc, CompareThem, BtcPrice, PriceOnly,
            EthVsDots, JustHelp, RandomText, ShowTrendingTokens} \cup StrategyQueries

\* The token lists of the direct calls of generate_price_response.
Ids == {"bitcoin", "ethereum"}
MaxTokens == 4
TokenLists == UNION {[1..n -> Ids] : n \in 0..MaxTokens}

\* What fetch_crypto_price gives generate_price_response: the record of a
\* 200 response (or of the cache), a record of a 200 response with a null
\* number in it, or None.
FetchResults == {"ok", "ok_null", "unavailable"}

\* What the ASI1 API does with the request of enhance_with_asi1: the call
\* raises or times out, or a response arrives with a status and a content
\* of some length (no_choices: a 200 body with an empty `choices`).
ContentLengths == {0, 2, 50, 51}
Statuses == {200, 500}
LLMCall(kind, status, len) == [kind |-> kind, status |-> status, length |-> len]
NoLLMCall == LLMCall("none", 0, 0)
LLMOutcomes ==
    {LLMCall("raises", 0, 0), LLMCall("timeout", 0, 0), LLMCall("no_choices", 200, 0)}
        \cup {LLMCall("response", s, n) : s \in Statuses, n \in ContentLengths}

\* `if enhanced and len(enhanced) > 50:` of agent_DEPLOYED_ENHANCED.py and
\* src/agent.py; `if enhanced:` of agent_DEPLOYED.py.
MinEnhancedLength == 50
Accepted(i, len) ==
    IF i = "deployed" THEN len > 0 ELSE len > 0 /\ len > MinEnhancedLength

\* enhance_with_asi1(response_text, ...) once the request was sent: the
\* enhanced content when the status is 200 (raise_for_status passed) and the
\* content is accepted; response_text after an exception and in every
\* other case.
enhance_with_asi1(i, response_text, o) ==
    IF o.kind \in {"raises", "timeout", "no_choices"} THEN response_text
    ELSE IF o.status # 200 THEN response_text
    ELSE IF Accepted(i, o.length) THEN Text("llm", << >>, o.length)
    ELSE response_text

\* The test of the compare branch: `if len(tokens) >= 2:`.
EnoughToCompareOne(ts) == Len(ts) >= 1
EnoughToCompare(ts) == Len(ts) >= 2

\* The tokens generate_price_response makes sections for: `for token in
\* tokens[:3]` in src/agent.py, `for token_id in tokens` in the other two.
Rendered(i, ts) == IF i = "agent" THEN Take(ts, 3) ELSE ts

\* The tokens the dispatch finds in the message.
TokensOf(i, m) ==
    IF i = "agent" THEN agent_tokens(1, Lower(m), << >>) ELSE extract_crypto_tokens(m)

\* The risk level the strategy branch of the dispatch finds in the message.
RiskLevelOf(i, m) ==
    IF i = "agent" THEN agent_risk_level(Lower(m)) ELSE extract_risk_level(m)

\* generate_strategy_response(risk_level): the text written from the entry
\* of the table of strategies.
generate_strategy_response(risk_level) ==
    Text("strategy", <<[token |-> StrategyEntry(risk_level), kind |-> "strategy"]>>, 0)

\* format_error_response(...) of a sub-handler of agents/handlers.py, e.g.
\* "Error: Failed to fetch price data. Please try again or rephrase ...".
ErrorResponse(query_type) == Text("error", <<query_type>>, 0)

\* The error message of the callable e after an unexpected exception.
ErrorMessage(e, query_type) ==
    IF e = "handle_query" THEN ErrorResponse(query_type) ELSE ErrorText

\* The callables whose body is inside `try: ... except Exception as e:` with
\* a handler that returns an error message: process_query of the three
\* agents; handle_query and its _handle_*_query methods.
CaughtNowhere(e) == FALSE
Caught(e) == e \in {"process_query", "handle_query"}

\* An exception is raised while e runs: its handler returns the error
\* message, or the exception leaves e.
Unwind(e, query_type) ==
    /\ tpc' = "done"
    /\ IF Caught(e)
       THEN response' = ErrorMessage(e, query_type) /\ outcome' = "return"
       ELSE response' = NoText /\ outcome' = "raise"

\* src/agent.py: `if metta_insight: response = f"{response}\n\n{metta_insight}"`.
WithInsight(i, r, k) ==
    IF i = "agent" /\ k # None
    THEN [r EXCEPT !.sections = Append(@, [token |-> "metta", kind |-> "insight"])]
    ELSE r

\* A new call starts: nothing was sent, fetched or written yet.
StartCall(e, m) ==
    /\ tpc = "idle"
    /\ entry_point' = e
    /\ message' = m
    /\ sections' = << >>
    /\ fetched' = << >>
    /\ knowledge_context' = None
    /\ given' = NoText
    /\ llm' = NoLLMCall

\* process_query(message, ctx): intent = extract_intent(message), then the
\* knowledge lookup when it is enabled.
ProcessQuery(m) ==
    /\ impl \in {"deployed", "enhanced", "agent"}
    /\ StartCall("process_query", m)
    /\ intent' = IF impl = "agent" THEN agent_route(m) ELSE extract_intent(m)
    /\ tokens' = << >>
    /\ network' = << >>
    /\ response' = NoText
    /\ outcome' = "none"
    /\ tpc' = IF ENABLE_METTA_KNOWLEDGE THEN "knowledge" ELSE "dispatch"
    /\ UNCHANGED <<impl, ENABLE_METTA_KNOWLEDGE, ENABLE_ASI1_ENHANCEMENT, ASI1_API_KEY>>
    /\ TurnFrame

\* knowledge_context = await query_metta_knowledge(...): a request to the
\* Metta API (src/agent.py: a run of the local MeTTa interpreter); a
\* summary, or None (no results, bad status, exception).
QueryMettaKnowledge ==
    /\ tpc = "knowledge"
    /\ network' = IF impl = "agent" THEN network ELSE Append(network, "knowledge")
    /\ \E k \in {None, "knowledge_summary"} : knowledge_context' = k
    /\ tpc' = "dispatch"
    /\ UNCHANGED <<impl, ENABLE_METTA_KNOWLEDGE, ENABLE_ASI1_ENHANCEMENT, ASI1_API_KEY,
                   entry_point, message, intent, tokens, sections, fetched, response,
                   given, llm, outcome>>
    /\ TurnFrame

\* The generator's result goes on to the enhancement step of process_query.
Synthesized(r) == response' = r /\ tpc' = "enhance"

\* generate_price_response(ts) is entered from e: the prompt for an empty list in
\* agent_DEPLOYED*.py, the loop otherwise.
EnterPriceResponse(e, ts) ==
    /\ tokens' = ts
    /\ IF ts = << >> /\ impl # "agent"
       THEN IF e = "process_query"
            THEN Synthesized(SpecifyPrompt) /\ UNCHANGED outcome
            ELSE response' = SpecifyPrompt /\ tpc' = "done" /\ outcome' = "return"
       ELSE tpc' = "price" /\ response' = NoText /\ outcome' = "none"

\* The `if intent == ...` chain of process_query.
Dispatch ==
    /\ tpc = "dispatch"
    /\ LET ts == TokensOf(impl, message)
       IN  IF intent = "price"
           THEN EnterPriceResponse(entry_point, ts) /\ UNCHANGED <<network, fetched>>
           ELSE IF intent = "compare"
           THEN IF EnoughToCompare(ts)
                THEN EnterPriceResponse(entry_point, Take(ts, 2)) /\ UNCHANGED <<network, fetched>>
                ELSE /\ Synthesized(ClarificationPrompt)
                     /\ tokens' = ts
                     /\ UNCHANGED <<network, outcome, fetched>>
           ELSE IF intent = "unknown"
           THEN IF ts # << >>
                THEN EnterPriceResponse(entry_point, ts) /\ UNCHANGED <<network, fetched>>
                ELSE /\ Synthesized(NotSureText)
                     /\ tokens' = ts
                     /\ UNCHANGED <<network, outcome, fetched>>
           ELSE IF intent = "strategy"
           THEN /\ Synthesized(generate_strategy_response(RiskLevelOf(impl, message)))
                /\ UNCHANGED <<tokens, network, outcome, fetched>>
           ELSE IF intent = "help"
           THEN /\ Synthesized(Text(intent, << >>, 0))
                /\ UNCHANGED <<tokens, network, outcome, fetched>>
           ELSE \* trending, news, sentiment, movers: a generator that fetches,
                \* and writes its text, its unable-to-fetch line, or raises on
                \* a record with a null number in it
                \E data \in FetchResults :
                  /\ fetched' = <<data>>
                  /\ network' = Append(network, intent)
                  /\ IF data = "ok_null"
                     THEN Unwind(entry_point, intent)
                     ELSE /\ Synthesized(Text(intent, << >>, 0))
                          /\ UNCHANGED outcome
                  /\ UNCHANGED tokens
    /\ UNCHANGED <<impl, ENABLE_METTA_KNOWLEDGE, ENABLE_ASI1_ENHANCEMENT, ASI1_API_KEY,
                   entry_point, message, intent, sections, knowledge_context,
                   given, llm>>
    /\ TurnFrame

\* A caller calls generate_price_response(ts).
CallGeneratePriceResponse(ts) ==
    /\ impl \in {"deployed", "enhanced", "agent"}
    /\ StartCall("generate_price_response", << >>)
    /\ EnterPriceResponse("generate_price_response", ts)
    /\ network' = << >>
    /\ intent' = "unknown"
    /\ UNCHANGED <<impl, ENABLE_METTA_KNOWLEDGE, ENABLE_ASI1_ENHANCEMENT, ASI1_API_KEY>>
    /\ TurnFrame

\* One pass of the loop of generate_price_response: fetch_crypto_price, then
\* the section of the token.  format_number / format_percentage of a None
\* raise TypeError, which leaves generate_price_response; process_query's
\* `except Exception` turns it into the error text.
PriceSection ==
    /\ tpc = "price"
    /\ Len(sections) < Len(Rendered(impl, tokens))
    /\ LET token == tokens[Len(sections) + 1]
       IN  \E data \in FetchResults :
             /\ fetched' = Append(fetched, data)
             /\ network' = Append(network, "price")
             /\ IF data = "ok_null"
                THEN /\ UNCHANGED sections
                     /\ Unwind(entry_point, intent)
                ELSE /\ sections' = Append(sections,
                          [token |-> token,
                           kind |-> IF data = "unavailable" THEN "could_not_fetch" ELSE "data"])
                     /\ UNCHANGED <<tpc, response, outcome>>
    /\ UNCHANGED <<impl, ENABLE_METTA_KNOWLEDGE, ENABLE_ASI1_ENHANCEMENT, ASI1_API_KEY,
                   entry_point, message, intent, tokens, knowledge_context, given, llm>>
    /\ TurnFrame

\* The loop is over: return response.
PriceReturn ==
    /\ tpc = "price"
    /\ Len(sections) = Len(Rendered(impl, tokens))
    /\ IF entry_point = "process_query"
       THEN Synthesized(Text("prices", sections, 0)) /\ UNCHANGED outcome
       ELSE response' = Text("prices", sections, 0) /\ tpc' = "done" /\ outcome' = "return"
    /\ UNCHANGED <<impl, ENABLE_METTA_KNOWLEDGE, ENABLE_ASI1_ENHANCEMENT, ASI1_API_KEY,
                   entry_point, message, intent, tokens, sections, fetched, network,
                   knowledge_context, given, llm>>
    /\ TurnFrame

\* The end of process_query: `if ENABLE_ASI1_ENHANCEMENT: response = await
\* enhance_with_asi1(response, ...)`, which sends a request to the ASI1 API
\* (agent_DEPLOYED.py: unless ASI1_API_KEY is empty); `return response`.
EnhanceAndReturn ==
    /\ tpc = "enhance"
    /\ given' = WithInsight(impl, response, knowledge_context)
    /\ IF ENABLE_ASI1_ENHANCEMENT /\ ASI1_API_KEY # ""
       THEN \E o \in LLMOutcomes :
              /\ llm' = o
              /\ network' = Append(network, "enhancement")
              /\ response' = enhance_with_asi1(impl, given', o)
       ELSE response' = given' /\ UNCHANGED <<llm, network>>
    /\ tpc' = "done"
    /\ outcome' = "return"
    /\ UNCHANGED <<impl, ENABLE_METTA_KNOWLEDGE, ENABLE_ASI1_ENHANCEMENT, ASI1_API_KEY,
                   entry_point, message, intent, tokens, sections, fetched,
                   knowledge_context>>
    /\ TurnFrame

\* QueryHandler._handle_comparison_query(query, user_id), for a query in
\* which parse_multiple_tokens recognizes the tokens ts: the prompt, or
\* market_analysis_service.compare_tokens, which fetches.
HandleComparisonQuery(ts) ==
    /\ impl = "handlers"
    /\ StartCall("_handle_comparison_query", << >>)
    /\ intent' = "compare"
    /\ tokens' = ts
    /\ IF Len(ts) < 2
       THEN response' = ClarificationPrompt /\ network' = << >>
       ELSE response' = Text("comparison", << >>, 0) /\ network' = <<"price", "price">>
    /\ tpc' = "done"
    /\ outcome' = "return"
    /\ UNCHANGED <<impl, ENABLE_METTA_KNOWLEDGE, ENABLE_ASI1_ENHANCEMENT, ASI1_API_KEY>>
    /\ TurnFrame

\* QueryHandler.handle_query(query, user_id): the message goes to the
\* context manager (add_message catches its own exceptions), then
\* _identify_query_type picks the sub-handler.
HandleQuery(m) ==
    /\ impl = "handlers"
    /\ StartCall("handle_query", m)
    /\ intent' = identify_query_type(m)
    /\ tokens' = << >>
    /\ network' = << >>
    /\ response' = NoText
    /\ outcome' = "none"
    /\ tpc' = "handler"
    /\ UNCHANGED <<impl, ENABLE_METTA_KNOWLEDGE, ENABLE_ASI1_ENHANCEMENT, ASI1_API_KEY>>
    /\ TurnFrame

\* What a service gives a sub-handler: the results of a fetcher, or an
\* exception (of the service, or of the formatter on its data).
ServiceResults == FetchResults \cup {"raises"}

\* The sub-handler handle_query routes to.  _handle_help_query and
\* _handle_general_query return a fixed text.  Each of the others asks its
\* service and returns the formatted data, its not-found line, or, from its
\* own `except Exception`, format_error_response("Failed to ...");
\* _handle_comparison_query first asks for two tokens.
SubHandler ==
    /\ tpc = "handler"
    /\ IF intent \in {"help", "general"}
       THEN /\ response' = Text(intent, << >>, 0)
            /\ tpc' = "done"
            /\ outcome' = "return"
            /\ UNCHANGED <<tokens, fetched, network>>
       ELSE \E ts \in {s \in TokenLists : Len(s) <= 2} :
              /\ tokens' = IF intent = "compare" THEN ts ELSE << >>
              /\ IF intent = "compare" /\ Len(ts) < 2
                 THEN /\ response' = ClarificationPrompt
                      /\ tpc' = "done"
                      /\ outcome' = "return"
                      /\ UNCHANGED <<fetched, network>>
                 ELSE \E data \in ServiceResults :
                        /\ fetched' = <<data>>
                        /\ network' = IF intent = "strategy" THEN network
                                       ELSE Append(network, intent)
                        /\ IF data \in {"raises", "ok_null"}
                           THEN Unwind(entry_point, intent)
                           ELSE /\ response' = Text(IF data = "ok" THEN intent ELSE "not_found",
                                                    << >>, 0)
                                /\ tpc' = "done"
                                /\ outcome' = "return"
    /\ UNCHANGED <<impl, ENABLE_METTA_KNOWLEDGE, ENABLE_ASI1_ENHANCEMENT, ASI1_API_KEY,
                   entry_point, message, intent, sections, knowledge_context, given, llm>>
    /\ TurnFrame

TurnInit ==
    /\ ENABLE_METTA_KNOWLEDGE = FALSE
    /\ ENABLE_ASI1_ENHANCEMENT = FALSE
    /\ ASI1_API_KEY = ""
    /\ entry_point = "none"
    /\ message = << >>
    /\ tpc = "idle"
    /\ tokens = << >>
    /\ sections = << >>
    /\ fetched = << >>
    /\ knowledge_context = None
    /\ response = NoText
    /\ given = NoText
    /\ llm = NoLLMCall
    /\ network = << >>
    /\ outcome = "none"

TurnNext ==
    \/ \E m \in Queries : ProcessQuery(m)
    \/ QueryMettaKnowledge
    \/ Dispatch
    \/ \E ts \in TokenLists : CallGeneratePriceResponse(ts)
    \/ PriceSection
    \/ PriceReturn
    \/ EnhanceAndReturn
    \/ \E ts \in {s \in TokenLists : Len(s) <= 2} : HandleComparisonQuery(ts)
    \/ \E m \in Queries : HandleQuery(m)
    \/ SubHandler

\* A turn for a message classified as compare in which fewer than 2 tokens
\* were recognized has ended.
CompareTurnDone ==
    /\ tpc = "done"
    /\ entry_point \in {"process_query", "_handle_comparison_query"}
    /\ intent = "compare"
    /\ Len(tokens) < 2

\* The network calls of the enhancers that are switched on, in the order of
\* process_query.
EnhancerCalls ==
    (IF ENABLE_METTA_KNOWLEDGE THEN <<"knowledge">> ELSE << >>)
        \o (IF ENABLE_ASI1_ENHANCEMENT /\ ASI1_API_KEY # "" THEN <<"enhancement">> ELSE << >>)

EnhancerFailed ==
    \/ llm.kind \in {"raises", "timeout", "no_choices"}
    \/ llm.kind = "response" /\ llm.status # 200
    \/ llm.kind = "response" /\ llm.length <= MinEnhancedLength

\* C9: when the enhancer's request raises, times out, gets a non-success
\* status or an empty or too short content, enhance_with_asi1 returns the
\* text it was given: the turn's response is the synthesized text.
C9_EnhancerFailureKeepsText ==
    (tpc = "done" /\ llm # NoLLMCall /\ EnhancerFailed) => response = given

\* C10: generate_price_response returns normally, with one section per
\* requested token, in the order of the request; the section of a token
\* whose fetch returned None is the could-not-fetch line of that token, the
\* sections of the other tokens are their data.
C10_OneSectionPerToken ==
    (tpc = "done" /\ entry_point = "generate_price_response") =>
        /\ outcome = "return"
        /\ tokens # << >> =>
              /\ response.kind = "prices"
              /\ Len(response.sections) = Len(tokens)
              /\ \A i \in 1..Len(tokens) :
                    /\ response.sections[i].token = tokens[i]
                    /\ response.sections[i].kind =
                          IF fetched[i] = "unavailable" THEN "could_not_fetch" ELSE "data"

\* A turn of one of the turn handlers has ended.
TurnDone == tpc = "done" /\ entry_point \in {"process_query", "handle_query"}

\* An unexpected exception was raised in the turn: a generator or a
\* formatter met a record with a null number, or a service raised.
UnexpectedException == \E i \in 1..Len(fetched) : fetched[i] \in {"ok_null", "raises"}

\* C11: whatever the message, and whatever the fetchers, the knowledge
\* lookup and the enhancer do, a turn of process_query / handle_query ends
\* by returning a response text, never by an exception; when an unexpected
\* exception was raised in it, the text is the handler's error message.
C11_TurnAlwaysAnswers ==
    TurnDone =>
        /\ outcome = "return"
        /\ response # NoText
        /\ UnexpectedException => response = ErrorMessage(entry_point, intent)

\* A turn of process_query in which the knowledge lookup ran and a record
\* with a null number made the price generator raise: the generic message.
C11_Witness ==
    /\ TurnDone
    /\ entry_point = "process_query"
    /\ network = <<"knowledge", "price", "price">>
    /\ fetched = <<"unavailable", "ok_null">>
    /\ response = ErrorText

\* The level the phrases of a text stand for: low when a phrase of low risk
\* occurs, otherwise high when a phrase of high risk occurs, otherwise medium.
PhraseLevel(text_lower) ==
    IF \E i \in 1..Len(LowRiskWords) : IsSubstring(LowRiskWords[i], text_lower) THEN "low"
    ELSE IF \E i \in 1..Len(HighRiskWords) : IsSubstring(HighRiskWords[i], text_lower)
    THEN "high"
    ELSE "medium"

----------------------------------------------------------------------------
(* The specifications *)

InitCache ==
    /\ now = 0
    /\ ticks = 0
    /\ impl \in {"manager", "deployed"}
    /\ memory_caches = << >>
    /\ cache = [k \in Keys |-> NoData]
    /\ max_size \in MaxSizes
    /\ impl = "deployed" => max_size = DefaultMaxSize
    /\ lastSet = [s \in {"manager", "deployed"} |-> [k \in Keys |-> NoSet]]
    /\ lastOp = NoOp
    /\ sets = 0
    /\ RateInit
    /\ FetchInit
    /\ ParseInit
    /\ KeyInit
    /\ NewsInit
    /\ MoversInit
    /\ LoopInit
    /\ AgentInit
    /\ ContextInit
    /\ TurnInit

SpecCache == InitCache /\ [][CacheNext]_vars

InitRate ==
    /\ now = 0
    /\ ticks = 0
    /\ impl = "manager"
    /\ CacheInit
    /\ RateInit
    /\ FetchInit
    /\ ParseInit
    /\ KeyInit
    /\ NewsInit
    /\ MoversInit
    /\ LoopInit
    /\ AgentInit
    /\ ContextInit
    /\ TurnInit

SpecRate == InitRate /\ [][RateNext]_vars

InitFetch ==
    /\ now = 0
    /\ ticks = 0
    /\ impl = "manager"
    /\ CacheInit
    /\ RateInit
    /\ func \in Funcs
    /\ max_retries \in RetriesOf(func)
    /\ max_delay \in MaxDelaysOf(func)
    /\ farg = "valid"
    /\ attempt = 0
    /\ last_exception = None
    /\ fpc = "idle"
    /\ delays = << >>
    /\ func_calls = << >>
    /\ requests = << >>
    /\ result = None
    /\ fetch_cache = [a \in Args |-> NoEntry]
    /\ fcalls = 0
    /\ ParseInit
    /\ KeyInit
    /\ NewsInit
    /\ MoversInit
    /\ LoopInit
    /\ AgentInit
    /\ ContextInit
    /\ TurnInit

SpecFetch == InitFetch /\ [][FetchNext]_vars

InitParse ==
    /\ now = 0
    /\ ticks = 0
    /\ impl \in {"deployed", "handlers"}
    /\ CacheInit
    /\ RateInit
    /\ FetchInit
    /\ vocab \in {"intent", "tokens", "symbols"}
    /\ impl = "handlers" <=> vocab = "symbols"
    /\ text = << >>
    /\ typed = 0
    /\ called = {}
    /\ intent = "unknown"
    /\ found_tokens = << >>
    /\ parsed_symbol = NoSymbol
    /\ parsed_tokens = << >>
    /\ KeyInit
    /\ NewsInit
    /\ MoversInit
    /\ LoopInit
    /\ AgentInit
    /\ ContextInit
    /\ TurnInit

SpecParse == InitParse /\ [][ParseNext]_vars

InitTurn ==
    /\ now = 0
    /\ ticks = 0
    /\ impl \in {"deployed", "enhanced", "agent", "handlers"}
    /\ CacheInit
    /\ RateInit
    /\ FetchInit
    /\ KeyInit
    /\ NewsInit
    /\ MoversInit
    /\ LoopInit
    /\ AgentInit
    /\ ContextInit
    /\ ParseInit
    /\ ENABLE_METTA_KNOWLEDGE \in BOOLEAN
    /\ ENABLE_ASI1_ENHANCEMENT \in BOOLEAN
    /\ ASI1_API_KEY \in {"", "key"}
    /\ impl \in {"enhanced", "agent"} => (ENABLE_ASI1_ENHANCEMENT <=> ASI1_API_KEY # "")
    /\ impl = "handlers" =>
          ~ENABLE_METTA_KNOWLEDGE /\ ~ENABLE_ASI1_ENHANCEMENT /\ ASI1_API_KEY = ""
    /\ entry_point = "none"
    /\ message = << >>
    /\ tpc = "idle"
    /\ tokens = << >>
    /\ sections = << >>
    /\ fetched = << >>
    /\ knowledge_context = None
    /\ response = NoText
    /\ given = NoText
    /\ llm = NoLLMCall
    /\ network = << >>
    /\ outcome = "none"

SpecTurn == InitTurn /\ [][TurnNext]_vars

InitKey ==
    /\ now = 0
    /\ ticks = 0
    /\ impl = "manager"
    /\ CacheInit
    /\ RateInit
    /\ FetchInit
    /\ KeyInit
    /\ NewsInit
    /\ MoversInit
    /\ LoopInit
    /\ AgentInit
    /\ ContextInit
    /\ ParseInit
    /\ TurnInit

SpecKey == InitKey /\ [][KeyNext]_vars

InitNews ==
    /\ now = 0
    /\ ticks = 0
    /\ impl \in {"handlers", "deployed"}
    /\ CacheInit
    /\ RateInit
    /\ FetchInit
    /\ KeyInit
    /\ news_feeds \in [FeedIds -> FeedContents]
    /\ news_cache = [k \in NewsKeys(impl) |-> NoNews]
    /\ ncall = NoNewsCall
    /\ ncalls = 0
    /\ MoversInit
    /\ LoopInit
    /\ AgentInit
    /\ ContextInit
    /\ ParseInit
    /\ TurnInit

SpecNews == InitNews /\ [][NewsNext]_vars

InitMovers ==
    /\ now = 0
    /\ ticks = 0
    /\ impl = "handlers"
    /\ CacheInit
    /\ RateInit
    /\ FetchInit
    /\ KeyInit
    /\ NewsInit
    /\ MoversInit
    /\ LoopInit
    /\ AgentInit
    /\ ContextInit
    /\ ParseInit
    /\ TurnInit

SpecMovers == InitMovers /\ [][MoversNext]_vars

InitLoop ==
    /\ now = 0
    /\ ticks = 0
    /\ impl = "handlers"
    /\ CacheInit
    /\ RateInit
    /\ FetchInit
    /\ KeyInit
    /\ NewsInit
    /\ MoversInit
    /\ LoopInit
    /\ AgentInit
    /\ ContextInit
    /\ ParseInit
    /\ TurnInit

SpecLoop == InitLoop /\ [][LoopNext]_vars

InitAgent ==
    /\ now = 0
    /\ ticks = 0
    /\ impl = "handlers"
    /\ CacheInit
    /\ RateInit
    /\ FetchInit
    /\ KeyInit
    /\ NewsInit
    /\ MoversInit
    /\ LoopInit
    /\ AgentInit
    /\ ContextInit
    /\ ParseInit
    /\ TurnInit

SpecAgent == InitAgent /\ [][AgentNext]_vars

InitContext ==
    /\ now = 0
    /\ ticks = 0
    /\ impl = "handlers"
    /\ CacheInit
    /\ RateInit
    /\ FetchInit
    /\ KeyInit
    /\ NewsInit
    /\ MoversInit
    /\ LoopInit
    /\ AgentInit
    /\ ContextInit
    /\ ParseInit
    /\ TurnInit

SpecContext == InitContext /\ [][ContextNext]_vars

====
